---- MODULE Spec2Model ----
(***************************************************************************)
(* A model of the MMU3 multi-material unit controller of klipper-mmu3      *)
(* (src/extras/mmu3.py).                                                    *)
(*                                                                          *)
(* The controller is single threaded: the host dispatches one G-code       *)
(* command at a time and the handler runs to completion.  A handler is a   *)
(* sequential program over the fields of the MMU3 object, the two sensor   *)
(* enable flags it writes, the readings of the FINDA and of the extruder   *)
(* presence switch, and the stepper / script requests it issues.  Every    *)
(* method of the class is an operator from the record of that state to the *)
(* record after the call; field ret holds the value the method returned,   *)
(* field exc is TRUE when it raised, field trace is the sequence of        *)
(* requests, readings and flag writes made so far by the running command.  *)
(* A command is one action: it applies the handler's operator to the       *)
(* current state, for every reading the sensors may give.                  *)
(***************************************************************************)
EXTENDS Integers, Sequences, FiniteSets, TLC

VARIABLES
    is_paused,                  \* MMU3.is_paused
    is_homed,                   \* MMU3.is_homed
    current_tool,               \* MMU3.current_tool
    current_filament,           \* MMU3.current_filament
    switch_sensor_enabled,      \* filament_switch_sensor.runout_helper.sensor_enabled
    motion_sensor_enabled,      \* filament_motion_sensor.runout_helper.sensor_enabled
    enable_no_selector_mode,    \* configuration flag
    enable_filament_cutter,     \* configuration flag
    idler_positions,            \* MMU3.idler_positions
    selector_positions,         \* MMU3.selector_positions
    last_command_failed,        \* MMU3._last_command_failed, _last_command_failed_args
    last,                       \* the command that has just run: what it was given,
                                \* what it returned and what it requested
    prev,                       \* the command before it, remembered when it was a
                                \* load_tool, an unselect_tool or a pause that
                                \* succeeded
    pc,                         \* "idle": waiting for a command, "done": one returned
    prompt,                     \* a Prompt: what it was made from and the object
    rendered                    \* what Prompt.to_gcode returned for it

\* MMU3.extruder_temp is written by pause() and read by nothing; it is a field
\* of the running command's record (and of last), not carried between commands.

vars == <<is_paused, is_homed, current_tool, current_filament,
          switch_sensor_enabled, motion_sensor_enabled, enable_no_selector_mode,
          enable_filament_cutter, idler_positions, selector_positions,
          last_command_failed, last, prev, pc, prompt, rendered>>

----------------------------------------------------------------------------
(* Bounds of the model and configuration values.                           *)

\* Python's None for current_tool, current_filament, extruder_temp and VALUE.
None == -100

\* Configuration: number of tools and the retry ceilings.  The defaults of the
\* program are 5, 20, 10, 5, 5 and 5; the model takes small values.
number_of_tools == 2
finda_load_retry == 2
finda_unload_retry == 1
load_retry == 1
unload_retry == 1
tool_change_retry == 2

\* How many readings of a sensor may differ within one command; every later
\* reading repeats the last one.
MaxFindaReads == 3
MaxExtruderReads == 2

\* Configuration defaults used as arguments of the requests.
min_temp_extruder == 180
extruder_eject_temp == 200
finda_load_length == 120
finda_unload_length == 30
bowden_load_length1 == 450
bowden_load_length2 == 20
bowden_load_length3 == 20
bowden_unload_length == 830
cut_filament_length == 20
cutting_edge_retract == 5
extra_load_length == 0
selector_homing_move_length == -76
idler_homing_move_lengths == <<7, -95>>

\* idler_positions and selector_positions as configured for number_of_tools
\* tools: one entry per tool and the parked entry last.  For five tools these
\* are the defaults 5, 20, 35, 50, 65, 85 and 73.5, 59.375, 45.25, 31.125,
\* 17, 0 (the selector in 1/1000 mm).
DefaultIdlerPositions ==
    [i \in 1..(number_of_tools + 1) |->
        IF i = number_of_tools + 1 THEN 85 ELSE 5 + 15 * (i - 1)]

DefaultSelectorPositions ==
    [i \in 1..(number_of_tools + 1) |->
        IF i = number_of_tools + 1 THEN 0 ELSE 73500 - 14125 * (i - 1)]

\* The tool ids the Tx and Kx commands are registered for.
ToolIds == 0..(number_of_tools - 1)

\* The values a VALUE parameter is tried with: the tools, None, a negative
\* id, number_of_tools itself and a larger one.
ValueIds == ToolIds \cup {None, -1, number_of_tools, number_of_tools + 1}

\* Hotend temperatures: one below min_temp_extruder, one above it.
Temps == {min_temp_extruder - 10, min_temp_extruder + 30}

\* The readings of a sensor during one command: reading i is the i-th entry,
\* and the last entry repeats.
RECURSIVE BoolSeqs(_)
BoolSeqs(n) ==
    IF n = 0 THEN {<<>>}
    ELSE {Append(q, b) : q \in BoolSeqs(n - 1), b \in BOOLEAN}

FindaReadings == BoolSeqs(MaxFindaReads)
ExtruderReadings == BoolSeqs(MaxExtruderReads)

\* load_filament_to_hotend reads the extruder sensor after its first feed,
\* once in each retry and once more at its end.
HotendFeedReadings == BoolSeqs(load_retry + 2)

\* _last_command_failed = None, _last_command_failed_args = None.
NoFailure == [cmd |-> "none", arg |-> None]

Max(a, b) == IF a >= b THEN a ELSE b
Abs(a) == IF a >= 0 THEN a ELSE -a
B2I(b) == IF b THEN 1 ELSE 0

----------------------------------------------------------------------------
(* The state of a running handler.                                          *)

\* The object and its collaborators as the handler finds them, with the
\* hotend temperature t and the sensor readings fr, er of this command.
Self(t, fr, er) ==
    [ is_paused |-> is_paused,
      is_homed |-> is_homed,
      current_tool |-> current_tool,
      current_filament |-> current_filament,
      extruder_temp |-> None,
      switch_sensor_enabled |-> switch_sensor_enabled,
      motion_sensor_enabled |-> motion_sensor_enabled,
      enable_no_selector_mode |-> enable_no_selector_mode,
      enable_filament_cutter |-> enable_filament_cutter,
      idler_positions |-> idler_positions,
      selector_positions |-> selector_positions,
      last_command_failed |-> last_command_failed,
      temp |-> t,
      finda |-> fr,
      ext |-> er,
      trace |-> <<>>,
      ret |-> TRUE,
      exc |-> FALSE ]

\* A request, a reading or a flag write, appended to the trace.
Ev(s, dev, op, arg) == [s EXCEPT !.trace = Append(@, <<dev, op, arg>>)]

\* return b
Ret(s, b) == [s EXCEPT !.ret = b]

\* An exception leaves the method; nothing after it runs.
Raise(s) == [s EXCEPT !.exc = TRUE, !.ret = FALSE]

----------------------------------------------------------------------------
(* Sensors and validations.                                                 *)

\* The object after a call, under a local name: K is the code that follows
\* the call.
Bind(s, K(_)) == K(s)

\* The method name has returned: its result is noted after what it requested.
\* Nothing is noted when it raised.
Returning(name, s) ==
    IF s.exc THEN s ELSE Ev(s, "return", name, B2I(s.ret))

get_extruder_temperature(s) == s.temp

\* The property is_filament_in_finda: one query of the pulley endstop.
is_filament_in_finda(s) ==
    LET v == Head(s.finda) IN
    [Ev(s, "finda", "read", B2I(v)) EXCEPT
        !.finda = IF Len(s.finda) > 1 THEN Tail(s.finda) ELSE s.finda,
        !.ret = v]

\* The property is_filament_present_in_extruder: one query of the switch.
is_filament_present_in_extruder(s) ==
    LET v == Head(s.ext) IN
    [Ev(s, "extruder_sensor", "read", B2I(v)) EXCEPT
        !.ext = IF Len(s.ext) > 1 THEN Tail(s.ext) ELSE s.ext,
        !.ret = v]

validate_filament_in_extruder(s) == is_filament_present_in_extruder(s)

validate_filament_not_stuck_in_extruder(s) ==
    Bind(is_filament_present_in_extruder(s), LAMBDA s1 : Ret(s1, ~s1.ret))

validate_filament_is_in_finda(s) == is_filament_in_finda(s)

validate_filament_not_stuck_in_finda(s) ==
    Bind(is_filament_in_finda(s), LAMBDA s1 : Ret(s1, ~s1.ret))

\* validate_hotend_is_hot_enough without the comparison.
validate_hotend_is_hot_enough_always(s) == Ret(s, TRUE)

validate_hotend_is_hot_enough(s) ==
    Ret(s, ~(get_extruder_temperature(s) < min_temp_extruder))

\* stepper.do_enable(False) on each of the given steppers, in order.
RECURSIVE disable_steppers_of(_, _)
disable_steppers_of(s, steppers) ==
    IF steppers = <<>> THEN Ret(s, TRUE)
    ELSE disable_steppers_of(Ev(s, Head(steppers), "disable", 0), Tail(steppers))

disable_steppers(s) == disable_steppers_of(s, <<"pulley", "selector", "idler">>)

\* runout_helper.sensor_enabled = v on the switch sensor, on the motion sensor.
SwitchSensorWrite(s, v) ==
    [Ev(s, "switch_sensor", IF v THEN "enable" ELSE "disable", 0) EXCEPT
        !.switch_sensor_enabled = v]

MotionSensorWrite(s, v) ==
    [Ev(s, "motion_sensor", IF v THEN "enable" ELSE "disable", 0) EXCEPT
        !.motion_sensor_enabled = v]

\* The managers are entered with desired_state False; the flag found on
\* entry (initial_state) is kept by the caller for __exit__.
FilamentSwitchSensorManager_enter(s) == SwitchSensorWrite(s, FALSE)

\* __exit__ without the write of initial_state.
FilamentSwitchSensorManager_exit_no_restore(s, initial_state) == s

FilamentSwitchSensorManager_exit(s, initial_state) ==
    SwitchSensorWrite(s, initial_state)

FilamentMotionSensorManager_enter(s) == MotionSensorWrite(s, FALSE)

FilamentMotionSensorManager_exit(s, initial_state) ==
    MotionSensorWrite(Ev(s, "motion_sensor", "encoder_event", 0), initial_state)

----------------------------------------------------------------------------
(* Homing, selection, pause.  idler_positions[-1] is the last entry of the  *)
(* table; the table is never empty (float("") raises before it is stored). *)

home_idler(s) ==
    LET s1 == Ev(s, "idler", "set_position", 0)
        s2 == Ev(s1, "idler", "move", idler_homing_move_lengths[1])
        s3 == Ev(s2, "idler", "move", idler_homing_move_lengths[2])
        s4 == Ev(s3, "idler", "set_position", 0)
    IN  Ret(Ev(s4, "idler", "move", s.idler_positions[Len(s.idler_positions)]),
            TRUE)

\* unselect_tool that asks for the parking move only when a tool is selected.
unselect_tool_only_when_selected(s) ==
    IF s.is_paused THEN Ret(s, FALSE)
    ELSE IF ~s.is_homed THEN Ret(s, FALSE)
    ELSE IF s.current_tool = None THEN Ret(s, TRUE)
    ELSE [Ev(s, "idler", "move", s.idler_positions[Len(s.idler_positions)])
             EXCEPT !.current_tool = None, !.ret = TRUE]

unselect_tool(s) ==
    IF s.is_paused THEN Ret(s, FALSE)
    ELSE IF ~s.is_homed THEN Ret(s, FALSE)
    ELSE [Ev(s, "idler", "move", s.idler_positions[Len(s.idler_positions)])
             EXCEPT !.current_tool = None, !.ret = TRUE]

\* select_tool without the test of is_homed.
select_tool_unhomed(s0, tool_id) ==
    Returning("select_tool",
      Bind(Ev(s0, "call", "select_tool", tool_id), LAMBDA s :
      IF s.is_paused THEN Ret(s, FALSE)
      ELSE IF tool_id = None \/ tool_id < 0 THEN Ret(s, FALSE)
      ELSE IF tool_id >= Len(s.idler_positions) THEN Raise(s)
      ELSE
        Bind(Ev(s, "idler", "move", s.idler_positions[tool_id + 1]), LAMBDA s1 :
        IF s1.enable_no_selector_mode
        THEN [s1 EXCEPT !.current_tool = tool_id, !.ret = TRUE]
        ELSE IF tool_id >= Len(s1.selector_positions) THEN Raise(s1)
        ELSE [Ev(s1, "selector", "move", s1.selector_positions[tool_id + 1])
                 EXCEPT !.current_tool = tool_id, !.ret = TRUE])))

\* idler_positions[tool_id] is a Python list index: an index of
\* len(idler_positions) or more raises IndexError before any move is asked.
select_tool(s0, tool_id) ==
    Returning("select_tool",
      Bind(Ev(s0, "call", "select_tool", tool_id), LAMBDA s :
      IF s.is_paused THEN Ret(s, FALSE)
      ELSE IF ~s.is_homed THEN Ret(s, FALSE)
      ELSE IF tool_id = None \/ tool_id < 0 THEN Ret(s, FALSE)
      ELSE IF tool_id >= Len(s.idler_positions) THEN Raise(s)
      ELSE
        Bind(Ev(s, "idler", "move", s.idler_positions[tool_id + 1]), LAMBDA s1 :
        IF s1.enable_no_selector_mode
        THEN [s1 EXCEPT !.current_tool = tool_id, !.ret = TRUE]
        ELSE IF tool_id >= Len(s1.selector_positions) THEN Raise(s1)
        ELSE [Ev(s1, "selector", "move", s1.selector_positions[tool_id + 1])
                 EXCEPT !.current_tool = tool_id, !.ret = TRUE])))

\* pause that does nothing on a unit that is paused already.
pause_once(s) ==
    IF s.is_paused THEN Ret(s, TRUE)
    ELSE [Ev(Ev(s, "call", "pause", 0), "gcode", "pause_script", 0) EXCEPT
             !.extruder_temp = get_extruder_temperature(s),
             !.is_paused = TRUE,
             !.ret = TRUE]

pause(s) ==
    [Ev(Ev(s, "call", "pause", 0), "gcode", "pause_script", 0) EXCEPT
        !.extruder_temp = get_extruder_temperature(s),
        !.is_paused = TRUE,
        !.ret = TRUE]

\* resume that leaves the unit unhomed.
resume_unhomed(s) ==
    [Ev(s, "gcode", "resume_script", 0) EXCEPT
        !.is_paused = FALSE, !.is_homed = FALSE, !.ret = TRUE]

resume(s) ==
    [Ev(s, "gcode", "resume_script", 0) EXCEPT !.is_paused = FALSE, !.ret = TRUE]

\* unlock that also forgets the tool and the filament.
unlock_clearing(s) ==
    home_idler([s EXCEPT !.is_paused = FALSE, !.current_tool = None,
                         !.current_filament = None])

unlock(s) == home_idler([s EXCEPT !.is_paused = FALSE])

\* The selector's part of home_mmu_only with the fast pass only.
home_selector_fast_only(s) ==
    LET a == Ev(s, "selector", "set_position", 0)
        b == Ev(a, "selector", "homing_move", -Abs(selector_homing_move_length))
    IN  Ev(b, "selector", "set_position", 0)

\* The selector's part of home_mmu_only.
home_selector(s) ==
    LET a == Ev(s, "selector", "set_position", 0)
        b == Ev(a, "selector", "homing_move", -Abs(selector_homing_move_length))
        c == Ev(b, "selector", "set_position", 0)
        d == Ev(c, "selector", "move", 3)
        e == Ev(d, "selector", "set_position", 0)
        f == Ev(e, "selector", "slow_homing_move",
                -Abs(selector_homing_move_length))
    IN  Ev(f, "selector", "set_position", 0)

home_mmu_only(s0) ==
    Returning("home_mmu_only",
      Bind(Ev(s0, "call", "home_mmu_only", 0), LAMBDA s :
      IF s.is_paused THEN Ret(s, FALSE)
      ELSE
        Bind(home_idler(s), LAMBDA s1 :
        Bind(IF ~s1.enable_no_selector_mode THEN home_selector(s1) ELSE s1,
             LAMBDA s2 :
        Bind(unselect_tool([s2 EXCEPT !.current_tool = None,
                                      !.current_filament = None]), LAMBDA s3 :
        disable_steppers([s3 EXCEPT !.is_homed = TRUE]))))))

----------------------------------------------------------------------------
(* Transport: loading.                                                      *)

\* The load loop with one iteration more than range(finda_load_retry).
RECURSIVE load_filament_to_finda_in_loop_one_more(_, _)
load_filament_to_finda_in_loop_one_more(s, i) ==
    IF i > finda_load_retry THEN Ret(s, FALSE)
    ELSE
      Bind(is_filament_in_finda(
             Ev(Ev(s, "pulley", "set_position", 0),
                "pulley", "homing_move", finda_load_length)), LAMBDA s3 :
      IF s3.ret THEN Ret(s3, TRUE)
      ELSE load_filament_to_finda_in_loop_one_more(s3, i + 1))

\* for i in range(finda_load_retry): zero, homing move, check the FINDA.
RECURSIVE load_filament_to_finda_in_loop_from(_, _)
load_filament_to_finda_in_loop_from(s, i) ==
    IF i >= finda_load_retry THEN Ret(s, FALSE)
    ELSE
      Bind(is_filament_in_finda(
             Ev(Ev(s, "pulley", "set_position", 0),
                "pulley", "homing_move", finda_load_length)), LAMBDA s3 :
      IF s3.ret THEN Ret(s3, TRUE)
      ELSE load_filament_to_finda_in_loop_from(s3, i + 1))

load_filament_to_finda_in_loop(s) == load_filament_to_finda_in_loop_from(s, 0)

\* The pulley increment and the extruder feed of the same length.
hotend_feed_increment(s) ==
    LET s1 == Ev(s, "pulley", "set_position", 0)
        s2 == Ev(s1, "pulley", "move", bowden_load_length3)
        s3 == Ev(s2, "gcode", "extruder_feed", bowden_load_length3)
    IN  Ev(s3, "pulley", "set_position", 0)

\* retry_load_filament_to_hotend that feeds whatever the sensor says.
retry_load_filament_to_hotend_unheeding(s) ==
    Bind(is_filament_present_in_extruder(s), LAMBDA s1 :
    IF s1.is_paused THEN Ret(s1, FALSE)
    ELSE IF get_extruder_temperature(s1) < min_temp_extruder THEN Ret(s1, FALSE)
    ELSE Ret(hotend_feed_increment(s1), TRUE))

retry_load_filament_to_hotend(s) ==
    Bind(is_filament_present_in_extruder(s), LAMBDA s1 :
    IF s1.ret THEN Ret(s1, TRUE)
    ELSE IF s1.is_paused THEN Ret(s1, FALSE)
    ELSE IF get_extruder_temperature(s1) < min_temp_extruder THEN Ret(s1, FALSE)
    ELSE Ret(hotend_feed_increment(s1), TRUE))

\* for _ in range(load_retry): self.retry_load_filament_to_hotend()
RECURSIVE retry_load_times(_, _)
retry_load_times(s, n) ==
    IF n = 0 THEN s ELSE retry_load_times(retry_load_filament_to_hotend(s), n - 1)

\* if not self.is_filament_present_in_extruder: the retries
load_retries_if_absent(s) ==
    Bind(is_filament_present_in_extruder(s), LAMBDA s2 :
    IF ~s2.ret THEN retry_load_times(s2, load_retry) ELSE s2)

load_filament_to_hotend(s0) ==
    Returning("load_filament_to_hotend",
      Bind(Ev(s0, "call", "load_filament_to_hotend", 0), LAMBDA s :
      IF s.is_paused THEN Ret(s, FALSE)
      ELSE IF ~validate_hotend_is_hot_enough(s).ret THEN Ret(s, FALSE)
      ELSE
        Bind(validate_filament_in_extruder(
               unselect_tool(load_retries_if_absent(hotend_feed_increment(s)))),
             LAMBDA s5 :
        IF ~s5.ret THEN Ret(s5, FALSE)
        ELSE
          \* if self.filament_motion_sensor: the switch sensor is enabled
          Ret(SwitchSensorWrite(
                IF s5.enable_filament_cutter /\ extra_load_length > 0
                THEN Ev(s5, "gcode", "extruder_feed", extra_load_length)
                ELSE s5, TRUE), TRUE))))

\* load_filament_to_finda without the assignment current_filament =
\* current_tool.
load_filament_to_finda_untracked(s0) ==
    Returning("load_filament_to_finda",
      Bind(Ev(s0, "call", "load_filament_to_finda", 0), LAMBDA s :
      IF s.is_paused THEN Ret(s, FALSE)
      ELSE IF s.current_tool = None THEN Ret(s, FALSE)
      ELSE
        Bind(load_filament_to_finda_in_loop(s), LAMBDA s1 :
        Ret(Ev(s1, "pulley", "set_position", 0), s1.ret))))

load_filament_to_finda(s0) ==
    Returning("load_filament_to_finda",
      Bind(Ev(s0, "call", "load_filament_to_finda", 0), LAMBDA s :
      IF s.is_paused THEN Ret(s, FALSE)
      ELSE IF s.current_tool = None THEN Ret(s, FALSE)
      ELSE
        Bind(load_filament_to_finda_in_loop(s), LAMBDA s1 :
        IF ~s1.ret THEN Ret(Ev(s1, "pulley", "set_position", 0), FALSE)
        ELSE [Ev(s1, "pulley", "set_position", 0) EXCEPT
                 !.current_filament = s1.current_tool, !.ret = TRUE])))

load_filament_from_finda_to_extruder(s0) ==
    Returning("load_filament_from_finda_to_extruder",
      Bind(Ev(s0, "call", "load_filament_from_finda_to_extruder", 0), LAMBDA s :
      IF s.is_paused THEN Ret(s, FALSE)
      ELSE IF s.current_tool = None THEN Ret(s, FALSE)
      ELSE
        LET s1 == Ev(s, "pulley", "set_position", 0)
            s2 == Ev(s1, "pulley", "move", bowden_load_length1)
            s3 == Ev(s2, "pulley", "set_position", 0)
        IN  Ret(Ev(s3, "pulley", "move", bowden_load_length2), TRUE)))

load_filament_to_extruder(s0) ==
    Returning("load_filament_to_extruder",
      Bind(Ev(s0, "call", "load_filament_to_extruder", 0), LAMBDA s :
      IF s.is_paused THEN Ret(s, FALSE)
      ELSE IF s.current_tool = None THEN Ret(s, FALSE)
      ELSE
        Bind(IF s.enable_no_selector_mode = FALSE
             THEN load_filament_to_finda(s)
             ELSE Ret(s, TRUE), LAMBDA s1 :
        IF ~s1.ret THEN Ret(s1, FALSE)
        ELSE load_filament_from_finda_to_extruder(s1))))

\* load_tool going on to the hotend whatever load_filament_to_extruder
\* returned.
load_tool_no_abort(s0, tool_id) ==
    Returning("load_tool",
      Bind(Ev(s0, "call", "load_tool", tool_id), LAMBDA s :
      IF s.is_paused THEN Ret(s, FALSE)
      ELSE IF ~validate_hotend_is_hot_enough(s).ret THEN Ret(s, FALSE)
      ELSE
        Bind(select_tool(s, tool_id), LAMBDA s1 :
        IF s1.exc \/ ~s1.ret THEN s1
        ELSE load_filament_to_hotend(load_filament_to_extruder(s1)))))

load_tool(s0, tool_id) ==
    Returning("load_tool",
      Bind(Ev(s0, "call", "load_tool", tool_id), LAMBDA s :
      IF s.is_paused THEN Ret(s, FALSE)
      ELSE IF ~validate_hotend_is_hot_enough(s).ret THEN Ret(s, FALSE)
      ELSE
        Bind(select_tool(s, tool_id), LAMBDA s1 :
        IF s1.exc \/ ~s1.ret THEN s1
        ELSE
          Bind(load_filament_to_extruder(s1), LAMBDA s2 :
          IF ~s2.ret THEN Ret(s2, FALSE)
          ELSE load_filament_to_hotend(s2)))))

pulley_calibrate(s) ==
    Bind(load_filament_to_finda(s), LAMBDA s1 :
    IF ~s1.ret THEN Ret(s1, FALSE)
    ELSE Ret(Ev(Ev(s1, "pulley", "set_position", 0), "pulley", "move", 100),
             TRUE))

----------------------------------------------------------------------------
(* Transport: unloading.                                                    *)

retry_unload_filament_from_hotend(s) ==
    Bind(is_filament_present_in_extruder(s), LAMBDA s1 :
    IF ~s1.ret THEN Ret(s1, TRUE)
    ELSE IF s1.is_paused THEN Ret(s1, FALSE)
    ELSE IF ~validate_hotend_is_hot_enough(s1).ret THEN Ret(s1, FALSE)
    ELSE Ret(Ev(s1, "gcode", "extruder_retract", 50), TRUE))

\* for _ in range(unload_retry): self.retry_unload_filament_from_hotend()
RECURSIVE retry_unload_times(_, _)
retry_unload_times(s, n) ==
    IF n = 0 THEN s
    ELSE retry_unload_times(retry_unload_filament_from_hotend(s), n - 1)

\* if self.is_filament_present_in_extruder: the retries
unload_retries_if_present(s) ==
    Bind(is_filament_present_in_extruder(s), LAMBDA s5 :
    IF s5.ret THEN retry_unload_times(s5, unload_retry) ELSE s5)

unload_filament_from_hotend(s0) ==
    Returning("unload_filament_from_hotend",
      Bind(Ev(s0, "call", "unload_filament_from_hotend", 0), LAMBDA s :
      IF s.is_paused THEN Ret(s, FALSE)
      ELSE
        Bind(is_filament_present_in_extruder(s), LAMBDA s1 :
        IF ~s1.ret THEN Ret(s1, TRUE)
        ELSE
          Bind(IF s1.current_tool # None THEN unselect_tool(s1) ELSE s1,
               LAMBDA s2 :
          IF ~validate_hotend_is_hot_enough(s2).ret THEN Ret(s2, FALSE)
          ELSE
            validate_filament_not_stuck_in_extruder(
              unload_retries_if_present(
                Ev(SwitchSensorWrite(s2, FALSE), "gcode", "extruder_retract", 50)))))))

\* The unload loop with range(finda_unload_retry + 1).
RECURSIVE unload_filament_to_finda_in_loop_one_more(_, _)
unload_filament_to_finda_in_loop_one_more(s, i) ==
    IF i > finda_unload_retry THEN Ret(s, FALSE)
    ELSE
      Bind(is_filament_in_finda(
             Ev(Ev(s, "pulley", "set_position", 0),
                "pulley", "homing_move", -finda_unload_length)), LAMBDA s3 :
      IF ~s3.ret THEN Ret(s3, TRUE)
      ELSE unload_filament_to_finda_in_loop_one_more(s3, i + 1))

\* for i in range(finda_unload_retry): zero, homing move back, check the FINDA.
RECURSIVE unload_filament_to_finda_in_loop_from(_, _)
unload_filament_to_finda_in_loop_from(s, i) ==
    IF i >= finda_unload_retry THEN Ret(s, FALSE)
    ELSE
      Bind(is_filament_in_finda(
             Ev(Ev(s, "pulley", "set_position", 0),
                "pulley", "homing_move", -finda_unload_length)), LAMBDA s3 :
      IF ~s3.ret THEN Ret(s3, TRUE)
      ELSE unload_filament_to_finda_in_loop_from(s3, i + 1))

unload_filament_to_finda_in_loop(s) == unload_filament_to_finda_in_loop_from(s, 0)

\* if self.current_tool is None: select the tracked filament's tool, or give
\* up (ret FALSE) when no filament is tracked either.  The result of the
\* select_tool call is not looked at.
auto_select_tool(s) ==
    IF s.current_tool = None
    THEN IF s.current_filament # None
         THEN Bind(select_tool(s, s.current_filament), LAMBDA s1 :
              IF s1.exc THEN s1 ELSE Ret(s1, TRUE))
         ELSE Ret(s, FALSE)
    ELSE Ret(s, TRUE)

\* The pulley move of unload_filament_from_finda.
retract_from_finda(s) ==
    LET s2 == Ev(s, "pulley", "set_position", 0)
        s3 == Ev(s2, "pulley", "move", -finda_unload_length)
    IN  Ev(s3, "pulley", "set_position", 0)

\* unload_filament_from_finda without the assignment current_filament = None.
unload_filament_from_finda_still_tracked(s0) ==
    Returning("unload_filament_from_finda",
      Bind(Ev(s0, "call", "unload_filament_from_finda", 0), LAMBDA s :
      IF s.is_paused THEN Ret(s, FALSE)
      ELSE
        Bind(auto_select_tool(s), LAMBDA s1 :
        IF s1.exc \/ ~s1.ret THEN s1
        ELSE validate_filament_not_stuck_in_finda(retract_from_finda(s1)))))

unload_filament_from_finda(s0) ==
    Returning("unload_filament_from_finda",
      Bind(Ev(s0, "call", "unload_filament_from_finda", 0), LAMBDA s :
      IF s.is_paused THEN Ret(s, FALSE)
      ELSE
        Bind(auto_select_tool(s), LAMBDA s1 :
        IF s1.exc \/ ~s1.ret THEN s1
        ELSE
          Bind(validate_filament_not_stuck_in_finda(retract_from_finda(s1)),
               LAMBDA s5 :
          IF ~s5.ret THEN Ret(s5, FALSE)
          ELSE [s5 EXCEPT !.current_filament = None, !.ret = TRUE]))))

unload_filament_from_extruder_to_finda(s0) ==
    Returning("unload_filament_from_extruder_to_finda",
      Bind(Ev(s0, "call", "unload_filament_from_extruder_to_finda", 0), LAMBDA s :
      IF s.is_paused THEN Ret(s, FALSE)
      ELSE
        Bind(auto_select_tool(s), LAMBDA s1 :
        IF s1.exc \/ ~s1.ret THEN s1
        ELSE IF ~s1.enable_no_selector_mode
        THEN
          Bind(is_filament_in_finda(
                 Ev(Ev(s1, "pulley", "set_position", 0),
                    "pulley", "homing_move", -bowden_unload_length)), LAMBDA s4 :
          IF s4.ret
          THEN Bind(unload_filament_to_finda_in_loop(s4), LAMBDA s5 :
               IF ~s5.ret THEN Ret(s5, FALSE)
               ELSE validate_filament_not_stuck_in_finda(s5))
          ELSE validate_filament_not_stuck_in_finda(s4))
        ELSE Ret(Ev(Ev(s1, "pulley", "set_position", 0),
                    "pulley", "move", -bowden_unload_length), TRUE))))

\* unload_filament_from_extruder going on to the FINDA stage whatever
\* unload_filament_from_extruder_to_finda returned.
unload_filament_from_extruder_no_abort(s0) ==
    Returning("unload_filament_from_extruder",
      Bind(Ev(s0, "call", "unload_filament_from_extruder", 0), LAMBDA s :
      IF s.is_paused THEN Ret(s, FALSE)
      ELSE
        Bind(auto_select_tool(s), LAMBDA s1 :
        IF s1.exc \/ ~s1.ret THEN s1
        ELSE
          Bind(unload_filament_from_extruder_to_finda(s1), LAMBDA s2 :
          IF s2.exc THEN s2
          ELSE IF s2.enable_no_selector_mode THEN Ret(s2, TRUE)
          ELSE unload_filament_from_finda(s2)))))

unload_filament_from_extruder(s0) ==
    Returning("unload_filament_from_extruder",
      Bind(Ev(s0, "call", "unload_filament_from_extruder", 0), LAMBDA s :
      IF s.is_paused THEN Ret(s, FALSE)
      ELSE
        Bind(auto_select_tool(s), LAMBDA s1 :
        IF s1.exc \/ ~s1.ret THEN s1
        ELSE
          Bind(unload_filament_from_extruder_to_finda(s1), LAMBDA s2 :
          IF s2.exc \/ ~s2.ret THEN s2
          ELSE IF s2.enable_no_selector_mode THEN Ret(s2, TRUE)
          ELSE unload_filament_from_finda(s2)))))

unload_filament_from_hotend_with_ramming(s) ==
    IF s.is_paused THEN Ret(s, FALSE)
    ELSE IF ~validate_hotend_is_hot_enough(s).ret THEN Ret(s, FALSE)
    ELSE
      Bind(IF s.current_tool # None THEN unselect_tool(s) ELSE s, LAMBDA s1 :
      unload_filament_from_hotend(
        IF s1.enable_filament_cutter
        THEN Ev(s1, "gcode", "cut_in_extruder", 0)
        ELSE Ev(s1, "gcode", "ramming", 0)))

eject_ramming(s) ==
    IF s.is_paused THEN Ret(s, FALSE)
    ELSE IF s.current_filament = None THEN Ret(s, FALSE)
    ELSE
      Bind(unload_filament_from_hotend_with_ramming(s), LAMBDA s1 :
      IF ~s1.ret THEN Ret(s1, FALSE)
      ELSE
        Bind(select_tool(s1, s1.current_filament), LAMBDA s2 :
        IF s2.exc THEN s2 ELSE unload_filament_from_extruder(s2)))

\* if self.enable_filament_cutter and self.is_filament_present_in_extruder:
\* CUT_FILAMENT_IN_EXTRUDER
cut_if_present(s) ==
    IF s.enable_filament_cutter
    THEN Bind(is_filament_present_in_extruder(s), LAMBDA s1 :
         IF s1.ret THEN Ev(s1, "gcode", "cut_in_extruder", 0) ELSE s1)
    ELSE s

\* unload_tool that returns success on a triggered FINDA without adopting
\* the selected tool as the loaded filament.
unload_tool_no_adopt(s0) ==
    Returning("unload_tool",
      Bind(Ev(s0, "call", "unload_tool", 0), LAMBDA s :
      IF s.is_paused THEN Ret(s, FALSE)
      ELSE IF s.current_filament = None
      THEN
        Bind(is_filament_in_finda(s), LAMBDA s1 :
        IF s1.ret
        THEN IF s1.current_tool = None THEN Ret(s1, FALSE) ELSE Ret(s1, TRUE)
        ELSE Ret(s1, TRUE))
      ELSE
        Bind(unload_filament_from_hotend(cut_if_present(s)), LAMBDA s3 :
        IF ~s3.ret THEN Ret(s3, FALSE)
        ELSE
          Bind(select_tool(s3, s3.current_filament), LAMBDA s4 :
          IF s4.exc \/ ~s4.ret THEN s4
          ELSE unload_filament_from_extruder(s4)))))

unload_tool(s0) ==
    Returning("unload_tool",
      Bind(Ev(s0, "call", "unload_tool", 0), LAMBDA s :
      IF s.is_paused THEN Ret(s, FALSE)
      ELSE IF s.current_filament = None
      THEN
        Bind(is_filament_in_finda(s), LAMBDA s1 :
        IF s1.ret
        THEN IF s1.current_tool = None THEN Ret(s1, FALSE)
             ELSE [s1 EXCEPT !.current_filament = s1.current_tool, !.ret = TRUE]
        ELSE Ret(s1, TRUE))
      ELSE
        Bind(unload_filament_from_hotend(cut_if_present(s)), LAMBDA s3 :
        IF ~s3.ret THEN Ret(s3, FALSE)
        ELSE
          Bind(select_tool(s3, s3.current_filament), LAMBDA s4 :
          IF s4.exc \/ ~s4.ret THEN s4
          ELSE unload_filament_from_extruder(s4)))))

----------------------------------------------------------------------------
(* Eject, full homing, cut, tool change.                                    *)

eject_from_extruder(s) ==
    IF s.is_paused THEN Ret(s, FALSE)
    ELSE
      Bind(is_filament_present_in_extruder(s), LAMBDA s1 :
      IF ~s1.ret THEN Ret(s1, TRUE)
      ELSE
        \* M109 S{min_temp} waits until the hotend has reached min_temp.
        unload_filament_from_hotend_with_ramming(
          [Ev(s1, "gcode", "M109",
              Max(get_extruder_temperature(s1), extruder_eject_temp))
             EXCEPT !.temp = Max(get_extruder_temperature(s1),
                                 extruder_eject_temp)]))

\* if self.is_filament_present_in_extruder: eject, and check it is out.
eject_if_present(s) ==
    Bind(is_filament_present_in_extruder(s), LAMBDA s1 :
    IF s1.ret
    THEN Bind(eject_from_extruder(s1), LAMBDA s2 :
         IF ~s2.ret THEN Ret(s2, FALSE)
         ELSE validate_filament_not_stuck_in_extruder(s2))
    ELSE Ret(s1, TRUE))

eject_before_home(s0) ==
    Returning("eject_before_home",
      Bind(Ev(s0, "call", "eject_before_home", 0), LAMBDA s :
      Bind(eject_if_present(s), LAMBDA s3 :
      IF ~s3.ret THEN Ret(s3, FALSE)
      ELSE IF ~s3.enable_no_selector_mode
      THEN
        Bind(is_filament_in_finda(s3), LAMBDA s4 :
        IF s4.ret
        THEN Bind(unload_filament_from_extruder(s4), LAMBDA s5 :
             IF s5.exc \/ ~s5.ret THEN s5
             ELSE validate_filament_not_stuck_in_finda(s5))
        ELSE Ret(s4, TRUE))
      ELSE Ret(s3, TRUE))))

\* The body of home_mmu's with block going on to home_mmu_only whatever
\* eject_before_home returned.
home_mmu_guarded_no_abort(s) ==
    Bind(eject_before_home([s EXCEPT !.is_homed = TRUE]), LAMBDA s3 :
    IF s3.exc THEN s3 ELSE home_mmu_only(s3))

\* The body of home_mmu's with block withdrawing is_homed when
\* eject_before_home fails.
home_mmu_guarded_unhoming(s) ==
    Bind(eject_before_home([s EXCEPT !.is_homed = TRUE]), LAMBDA s3 :
    IF s3.exc THEN s3
    ELSE IF ~s3.ret THEN [s3 EXCEPT !.is_homed = FALSE]
    ELSE home_mmu_only(s3))

\* The body of home_mmu's with block.
home_mmu_guarded(s) ==
    Bind(eject_before_home([s EXCEPT !.is_homed = TRUE]), LAMBDA s3 :
    IF s3.exc \/ ~s3.ret THEN s3 ELSE home_mmu_only(s3))

\* with FilamentSwitchSensorManager(...): the flag found on entry is written
\* back on every way out of the block.
home_mmu(s0) ==
    Returning("home_mmu",
      Bind(Ev(s0, "call", "home_mmu", 0), LAMBDA s :
      Bind(home_mmu_guarded(FilamentSwitchSensorManager_enter(s)), LAMBDA s4 :
      [FilamentSwitchSensorManager_exit(s4, s.switch_sensor_enabled)
          EXCEPT !.ret = s4.ret])))

\* The cut without the script that returns the selector's current and stall
\* threshold to normal.
cut_moves_no_restore(s, tool_id) ==
    LET a == Ev(s, "idler", "move", s.idler_positions[tool_id + 1])
        b == Ev(a, "selector", "move", 5)
        c == Ev(b, "pulley", "set_position", 0)
        d == Ev(c, "pulley", "move", cut_filament_length + cutting_edge_retract)
        e == Ev(d, "gcode", "tmc_override", 0)
        f == Ev(e, "selector", "cut_move", s.selector_positions[tool_id + 1])
        h == Ev(f, "pulley", "set_position", 0)
    IN  Ev(h, "pulley", "move", -cutting_edge_retract)

\* The blade is prepared, the cut made and the filament pulled back.
cut_moves(s, tool_id) ==
    LET a == Ev(s, "idler", "move", s.idler_positions[tool_id + 1])
        b == Ev(a, "selector", "move", 5)
        c == Ev(b, "pulley", "set_position", 0)
        d == Ev(c, "pulley", "move", cut_filament_length + cutting_edge_retract)
        e == Ev(d, "gcode", "tmc_override", 0)
        f == Ev(e, "selector", "cut_move", s.selector_positions[tool_id + 1])
        g == Ev(f, "gcode", "tmc_restore", 0)
        h == Ev(g, "pulley", "set_position", 0)
    IN  Ev(h, "pulley", "move", -cutting_edge_retract)

\* cut_filament_in_mmu that cuts whether or not the filament reached the FINDA.
cut_filament_in_mmu_no_abort(s, tool_id) ==
    IF number_of_tools > 5 THEN Ret(s, FALSE)
    ELSE IF s.is_paused THEN Ret(s, FALSE)
    ELSE IF s.enable_no_selector_mode THEN Ret(s, FALSE)
    ELSE
      Bind(unload_tool(s), LAMBDA s1 :
      IF s1.exc \/ ~s1.ret THEN s1 ELSE
      Bind(select_tool(s1, tool_id), LAMBDA s2 :
      IF s2.exc \/ ~s2.ret THEN s2 ELSE
      Bind(load_filament_to_finda(s2), LAMBDA s3 :
      Bind(unload_filament_from_finda(s3), LAMBDA s4 :
      IF s4.exc \/ ~s4.ret THEN s4 ELSE
      Bind(home_mmu(cut_moves(s4, tool_id)), LAMBDA j :
      IF j.exc THEN j ELSE Ret(j, TRUE))))))

cut_filament_in_mmu(s, tool_id) ==
    IF number_of_tools > 5 THEN Ret(s, FALSE)
    ELSE IF s.is_paused THEN Ret(s, FALSE)
    ELSE IF s.enable_no_selector_mode THEN Ret(s, FALSE)
    ELSE
      Bind(unload_tool(s), LAMBDA s1 :
      IF s1.exc \/ ~s1.ret THEN s1 ELSE
      Bind(select_tool(s1, tool_id), LAMBDA s2 :
      IF s2.exc \/ ~s2.ret THEN s2 ELSE
      Bind(load_filament_to_finda(s2), LAMBDA s3 :
      IF ~s3.ret THEN s3 ELSE
      Bind(unload_filament_from_finda(s3), LAMBDA s4 :
      IF s4.exc \/ ~s4.ret THEN s4 ELSE
      Bind(home_mmu(cut_moves(s4, tool_id)), LAMBDA j :
      IF j.exc THEN j ELSE Ret(j, TRUE))))))

\* The prompt of a failed tool change, as Prompt.to_gcode renders it line by
\* line: its text, the two button groups and the footer button.
tx_prompt(s, tool_id) ==
    LET a == Ev(s, "prompt", "begin", 0)
        b == Ev(a, "prompt", "text", tool_id)
        c == Ev(b, "prompt", "button_group_start", 0)
        d == Ev(c, "prompt_button", "Unlock MMU", None)
        e == Ev(d, "prompt_button", "Home MMU", None)
        f == Ev(e, "prompt", "button_group_end", 0)
        g == Ev(f, "prompt", "button_group_start", 0)
        h == Ev(g, "prompt_button", "Retry T", tool_id)
        i == Ev(h, "prompt", "button_group_end", 0)
        j == Ev(i, "prompt_footer_button", "Resume", None)
    IN  Ev(j, "prompt", "show", 0)

\* The retry loop of Tx with range(tool_change_retry - 1).
RECURSIVE tx_attempts_one_short(_, _, _)
tx_attempts_one_short(s, i, tool_id) ==
    IF i >= tool_change_retry - 1 THEN Ret(s, FALSE)
    ELSE
      Bind(unload_tool(s), LAMBDA s1 :
      IF s1.exc THEN s1
      ELSE IF ~s1.ret THEN tx_attempts_one_short(s1, i + 1, tool_id)
      ELSE
        Bind(IF i = tool_change_retry - 1 THEN home_mmu(s1) ELSE s1, LAMBDA s2 :
        IF s2.exc THEN s2
        ELSE
          Bind(load_tool(s2, tool_id), LAMBDA s3 :
          IF s3.exc THEN s3
          ELSE IF ~s3.ret THEN tx_attempts_one_short(s3, i + 1, tool_id)
          ELSE Ret(s3, TRUE))))

\* for i in range(tool_change_retry): ... break; ret tells whether the loop
\* was left by break (TRUE) or ran out (FALSE, the for's else branch).
RECURSIVE tx_attempts(_, _, _)
tx_attempts(s, i, tool_id) ==
    IF i >= tool_change_retry THEN Ret(s, FALSE)
    ELSE
      Bind(unload_tool(s), LAMBDA s1 :
      IF s1.exc THEN s1
      ELSE IF ~s1.ret THEN tx_attempts(s1, i + 1, tool_id)
      ELSE
        Bind(IF i = tool_change_retry - 1 THEN home_mmu(s1) ELSE s1, LAMBDA s2 :
        IF s2.exc THEN s2
        ELSE
          Bind(load_tool(s2, tool_id), LAMBDA s3 :
          IF s3.exc THEN s3
          ELSE IF ~s3.ret THEN tx_attempts(s3, i + 1, tool_id)
          ELSE Ret(s3, TRUE))))

\* The body of cmd_tx's with block: the attempts and, when they ran out,
\* the steppers disabled, the prompt, the steppers disabled again.
tx_guarded(s, tool_id) ==
    Bind(tx_attempts(Ev(s, "tx", "guard_enter", 0), 0, tool_id), LAMBDA s3 :
    Ev(IF s3.exc \/ s3.ret THEN s3
       ELSE Ret(disable_steppers(tx_prompt(disable_steppers(s3), tool_id)),
                FALSE),
       "tx", "guard_exit", 0))

\* cmd_tx without the test current_filament == tool_id.
cmd_tx_body_no_shortcut(s, tool_id) ==
    Bind(tx_guarded(FilamentMotionSensorManager_enter(
                      FilamentSwitchSensorManager_enter(s)), tool_id),
         LAMBDA s4 :
    Bind(FilamentSwitchSensorManager_exit(
           FilamentMotionSensorManager_exit(s4, s.motion_sensor_enabled),
           s.switch_sensor_enabled), LAMBDA s6 :
    IF s4.exc THEN s6
    ELSE IF ~s4.ret THEN Ret(s6, FALSE)
    ELSE disable_steppers(s6)))

cmd_tx_body(s, tool_id) ==
    IF s.current_filament = tool_id THEN Ret(s, TRUE)
    ELSE
      Bind(tx_guarded(FilamentMotionSensorManager_enter(
                        FilamentSwitchSensorManager_enter(s)), tool_id),
           LAMBDA s4 :
      Bind(FilamentSwitchSensorManager_exit(
             FilamentMotionSensorManager_exit(s4, s.motion_sensor_enabled),
             s.switch_sensor_enabled), LAMBDA s6 :
      IF s4.exc THEN s6
      ELSE IF ~s4.ret THEN Ret(s6, FALSE)
      ELSE disable_steppers(s6)))

cmd_m702_body(s) ==
    Bind(unload_tool(s), LAMBDA s1 :
    IF s1.exc \/ ~s1.ret THEN s1
    ELSE IF ~s1.enable_no_selector_mode
    THEN
      Bind(is_filament_in_finda(s1), LAMBDA s2 :
      IF ~s2.ret THEN unselect_tool(s2) ELSE Ret(s2, FALSE))
    ELSE
      Bind(unselect_tool(s1), LAMBDA s2 :
      IF ~s2.ret THEN s2
      ELSE [s2 EXCEPT !.current_filament = None, !.ret = TRUE]))

\* auto_pause without the call of pause().
auto_pause_never(s) == s

\* auto_pause without the test of is_paused.
auto_pause_always(s) ==
    IF ~s.exc /\ ~s.ret THEN Ret(pause(s), s.ret) ELSE s

\* The decorator auto_pause: pause() when the command returned False and the
\* unit is not paused; the command's result is returned.
auto_pause(s) ==
    IF ~s.exc /\ ~s.ret /\ ~s.is_paused THEN Ret(pause(s), s.ret) ELSE s

----------------------------------------------------------------------------
(* mainsail_prompts: the widgets of a prompt and their rendering.  A string *)
(* is the sequence of its pieces, a piece being a run of characters; the    *)
(* text "action:prompt_button" is always a piece of its own, so that        *)
(* str.replace finds every occurrence of it.                                *)

MaxWidgets == 2

MaxButtons == 2

\* An optional argument: None, or a value.
Absent == [none |-> TRUE, value |-> <<>>]

Given(v) == [none |-> FALSE, value |-> v]

\* Python's truth of None, a string or a list.
Truthy(o) == ~o.none /\ o.value # <<>>

\* str(color): Color.__str__ gives the value of the member.
Color_str(color) ==
    CASE color = "Primary" -> <<"primary">>
      [] color = "Secondary" -> <<"secondary">>
      [] color = "Info" -> <<"info">>
      [] color = "Warning" -> <<"warning">>
      [] color = "Error" -> <<"error">>

Text_init(text) ==
    [kind |-> "Text", label |-> text, gcode |-> <<>>, color |-> Absent,
     buttons |-> <<>>]

\* Button.__init__, which FooterButton inherits: kind is the class.  A Color
\* is always true.
Button_init(kind, label, gcode, color) ==
    [kind |-> kind, label |-> label,
     gcode |-> IF Truthy(gcode) THEN gcode.value ELSE <<>>,
     color |-> color,
     buttons |-> <<>>]

ButtonGroup_init(buttons) ==
    [kind |-> "ButtonGroup", label |-> <<>>, gcode |-> <<>>, color |-> Absent,
     buttons |-> IF Truthy(buttons) THEN buttons.value ELSE <<>>]

Prompt_init(headline, widgets) ==
    [headline |-> headline,
     widgets |-> IF Truthy(widgets) THEN widgets.value ELSE <<>>]

\* What every line starts and ends with.
RespondMsg == "RESPOND TYPE=command MSG=\""

Quote == "\""

Text_to_gcode(w) ==
    <<RespondMsg, "action:prompt_text", " ">> \o w.label \o <<Quote>>

Button_to_gcode(w) ==
    <<RespondMsg, "action:prompt_button", " ">> \o w.label \o <<"|">>
        \o w.gcode \o <<"|">>
        \o (IF w.color.none THEN <<>> ELSE Color_str(w.color.value))
        \o <<Quote>>

\* str.replace(old, new): every occurrence of old becomes new.
replace(str, old, new) ==
    [i \in DOMAIN str |-> IF str[i] = old THEN new ELSE str[i]]

FooterButton_to_gcode(w) ==
    replace(Button_to_gcode(w), "action:prompt_button",
            "action:prompt_footer_button")

\* sep.join(list)
RECURSIVE join(_, _)
join(sep, list) ==
    IF list = <<>> THEN <<>>
    ELSE IF Len(list) = 1 THEN list[1]
    ELSE list[1] \o sep \o join(sep, Tail(list))

\* button.to_gcode() of a member of a group.
member_to_gcode(w) ==
    IF w.kind = "FooterButton" THEN FooterButton_to_gcode(w)
    ELSE Button_to_gcode(w)

ButtonGroup_to_gcode(w) ==
    join(<<"\n">>,
         <<(<<RespondMsg, "action:prompt_button", "_group_start", Quote>>)>>
           \o [i \in DOMAIN w.buttons |-> member_to_gcode(w.buttons[i])]
           \o <<(<<RespondMsg, "action:prompt_button", "_group_end", Quote>>)>>)

\* widget.to_gcode(), by the class of the widget.
widget_to_gcode(w) ==
    CASE w.kind = "Text" -> Text_to_gcode(w)
      [] w.kind = "Button" -> Button_to_gcode(w)
      [] w.kind = "FooterButton" -> FooterButton_to_gcode(w)
      [] w.kind = "ButtonGroup" -> ButtonGroup_to_gcode(w)

Prompt_to_gcode(p) ==
    join(<<"\n">>,
         <<(<<RespondMsg, "action:prompt_begin", " ">> \o p.headline \o <<Quote>>)>>
           \o [i \in DOMAIN p.widgets |-> widget_to_gcode(p.widgets[i])]
           \o <<(<<RespondMsg, "action:prompt_show", Quote>>)>>)

\* Prompt(), and nothing rendered.
NoPrompt ==
    [headline |-> <<>>, widgets |-> Absent, object |-> Prompt_init(<<>>, Absent)]

NotRendered == [done |-> FALSE, text |-> <<>>]

----------------------------------------------------------------------------
(* Commands.                                                                *)

\* The fields of the unit a command may change, as it found them.
Unit ==
    [ is_paused |-> is_paused,
      is_homed |-> is_homed,
      current_tool |-> current_tool,
      current_filament |-> current_filament,
      switch_sensor_enabled |-> switch_sensor_enabled,
      motion_sensor_enabled |-> motion_sensor_enabled,
      last_command_failed |-> last_command_failed ]

NoCommand ==
    [cmd |-> "none", arg |-> None, ret |-> TRUE, exc |-> FALSE, temp |-> None,
     extruder_temp |-> None, trace |-> <<>>, pre |-> Unit]

NoPrev ==
    [cmd |-> "none", arg |-> None,
     pre |-> [is_paused |-> FALSE, is_homed |-> FALSE, current_tool |-> None,
              current_filament |-> None, switch_sensor_enabled |-> TRUE,
              motion_sensor_enabled |-> TRUE, last_command_failed |-> NoFailure]]

\* The handler has run to s: the object takes the fields of s, and last
\* records the command, the state it found, its result and its requests.
Returned(cmd, arg, t, s) ==
    /\ is_paused' = s.is_paused
    /\ is_homed' = s.is_homed
    /\ current_tool' = s.current_tool
    /\ current_filament' = s.current_filament
    /\ switch_sensor_enabled' = s.switch_sensor_enabled
    /\ motion_sensor_enabled' = s.motion_sensor_enabled
    /\ idler_positions' = s.idler_positions
    /\ selector_positions' = s.selector_positions
    /\ last_command_failed' = s.last_command_failed
    /\ last' = [cmd |-> cmd, arg |-> arg, ret |-> s.ret, exc |-> s.exc,
                temp |-> t, extruder_temp |-> s.extruder_temp,
                trace |-> s.trace, pre |-> Unit]
    /\ pc' = "done"
    /\ UNCHANGED <<enable_no_selector_mode, enable_filament_cutter, prev,
                   prompt, rendered>>

\* Commands that read no sensor.
cmd_select_tool ==
    /\ pc = "idle"
    /\ \E tool_id \in ValueIds, t \in Temps :
         Returned("select_tool", tool_id, t,
                  auto_pause(select_tool(Self(t, <<FALSE>>, <<FALSE>>), tool_id)))

cmd_unselect_tool ==
    /\ pc = "idle"
    /\ \E t \in Temps :
         Returned("unselect_tool", None, t,
                  auto_pause(unselect_tool(Self(t, <<FALSE>>, <<FALSE>>))))

cmd_home_idler ==
    /\ pc = "idle"
    /\ \E t \in Temps :
         Returned("home_idler", None, t,
                  auto_pause(home_idler(Self(t, <<FALSE>>, <<FALSE>>))))

cmd_home_mmu_only ==
    /\ pc = "idle"
    /\ \E t \in Temps :
         Returned("home_mmu_only", None, t,
                  auto_pause(home_mmu_only(Self(t, <<FALSE>>, <<FALSE>>))))

cmd_pause ==
    /\ pc = "idle"
    /\ \E t \in Temps :
         Returned("pause", None, t, pause(Self(t, <<FALSE>>, <<FALSE>>)))

cmd_resume ==
    /\ pc = "idle"
    /\ \E t \in Temps :
         Returned("resume", None, t, resume(Self(t, <<FALSE>>, <<FALSE>>)))

cmd_unlock ==
    /\ pc = "idle"
    /\ \E t \in Temps :
         Returned("unlock", None, t, unlock(Self(t, <<FALSE>>, <<FALSE>>)))

\* Commands that read the sensors.
cmd_home_mmu ==
    /\ pc = "idle"
    /\ \E t \in Temps, fr \in FindaReadings, er \in ExtruderReadings :
         Returned("home_mmu", None, t, auto_pause(home_mmu(Self(t, fr, er))))

cmd_load_filament_to_finda_in_loop ==
    /\ pc = "idle"
    /\ \E t \in Temps, fr \in FindaReadings :
         Returned("load_filament_to_finda_in_loop", None, t,
                  auto_pause(load_filament_to_finda_in_loop(Self(t, fr, <<FALSE>>))))

cmd_tx ==
    /\ pc = "idle"
    /\ \E tool_id \in ToolIds, t \in Temps,
          fr \in FindaReadings, er \in ExtruderReadings :
         Returned("tx", tool_id, t, auto_pause(cmd_tx_body(Self(t, fr, er), tool_id)))

cmd_kx ==
    /\ pc = "idle"
    /\ \E tool_id \in ToolIds, t \in Temps,
          fr \in FindaReadings, er \in ExtruderReadings :
         Returned("kx", tool_id, t,
                  auto_pause(cut_filament_in_mmu(Self(t, fr, er), tool_id)))

cmd_load_tool ==
    /\ pc = "idle"
    /\ \E tool_id \in ValueIds, t \in Temps :
         \* only an id that is an index of the tables gets as far as a sensor
         \E fr \in IF tool_id \in 0..number_of_tools
                    THEN FindaReadings ELSE {<<FALSE>>},
            er \in IF tool_id \in 0..number_of_tools
                    THEN ExtruderReadings ELSE {<<FALSE>>} :
           Returned("load_tool", tool_id, t,
                    auto_pause(load_tool(Self(t, fr, er), tool_id)))

cmd_unload_tool ==
    /\ pc = "idle"
    /\ \E t \in Temps, fr \in FindaReadings, er \in ExtruderReadings :
         Returned("unload_tool", None, t, auto_pause(unload_tool(Self(t, fr, er))))

cmd_m702 ==
    /\ pc = "idle"
    /\ \E t \in Temps, fr \in FindaReadings, er \in ExtruderReadings :
         Returned("m702", None, t, auto_pause(cmd_m702_body(Self(t, fr, er))))

\* The stage commands: each hands its method's result to auto_pause.
cmd_retry_load_filament_to_hotend ==
    /\ pc = "idle"
    /\ \E t \in Temps, er \in ExtruderReadings :
         Returned("retry_load_filament_to_hotend", None, t,
                  auto_pause(retry_load_filament_to_hotend(Self(t, <<FALSE>>, er))))

cmd_load_filament_to_hotend ==
    /\ pc = "idle"
    /\ \E t \in Temps, er \in HotendFeedReadings :
         Returned("load_filament_to_hotend", None, t,
                  auto_pause(load_filament_to_hotend(Self(t, <<FALSE>>, er))))

cmd_retry_unload_filament_from_hotend ==
    /\ pc = "idle"
    /\ \E t \in Temps, er \in ExtruderReadings :
         Returned("retry_unload_filament_from_hotend", None, t,
                  auto_pause(retry_unload_filament_from_hotend(Self(t, <<FALSE>>, er))))

cmd_unload_filament_from_hotend ==
    /\ pc = "idle"
    /\ \E t \in Temps, er \in ExtruderReadings :
         Returned("unload_filament_from_hotend", None, t,
                  auto_pause(unload_filament_from_hotend(Self(t, <<FALSE>>, er))))

cmd_eject_ramming ==
    /\ pc = "idle"
    /\ \E t \in Temps, fr \in FindaReadings, er \in ExtruderReadings :
         Returned("eject_ramming", None, t,
                  auto_pause(eject_ramming(Self(t, fr, er))))

cmd_unload_filament_from_hotend_with_ramming ==
    /\ pc = "idle"
    /\ \E t \in Temps, er \in ExtruderReadings :
         Returned("unload_filament_from_hotend_with_ramming", None, t,
                  auto_pause(unload_filament_from_hotend_with_ramming(Self(t, <<FALSE>>, er))))

cmd_load_filament_to_finda ==
    /\ pc = "idle"
    /\ \E t \in Temps, fr \in FindaReadings :
         Returned("load_filament_to_finda", None, t,
                  auto_pause(load_filament_to_finda(Self(t, fr, <<FALSE>>))))

cmd_load_filament_from_finda_to_extruder ==
    /\ pc = "idle"
    /\ \E t \in Temps :
         Returned("load_filament_from_finda_to_extruder", None, t,
                  auto_pause(load_filament_from_finda_to_extruder(Self(t, <<FALSE>>, <<FALSE>>))))

cmd_load_filament_to_extruder ==
    /\ pc = "idle"
    /\ \E t \in Temps, fr \in FindaReadings :
         Returned("load_filament_to_extruder", None, t,
                  auto_pause(load_filament_to_extruder(Self(t, fr, <<FALSE>>))))

cmd_unload_filament_from_finda ==
    /\ pc = "idle"
    /\ \E t \in Temps, fr \in FindaReadings :
         Returned("unload_filament_from_finda", None, t,
                  auto_pause(unload_filament_from_finda(Self(t, fr, <<FALSE>>))))

cmd_unload_filament_from_extruder_to_finda ==
    /\ pc = "idle"
    /\ \E t \in Temps, fr \in FindaReadings :
         Returned("unload_filament_from_extruder_to_finda", None, t,
                  auto_pause(unload_filament_from_extruder_to_finda(Self(t, fr, <<FALSE>>))))

cmd_unload_filament_from_extruder ==
    /\ pc = "idle"
    /\ \E t \in Temps, fr \in FindaReadings :
         Returned("unload_filament_from_extruder", None, t,
                  auto_pause(unload_filament_from_extruder(Self(t, fr, <<FALSE>>))))

cmd_eject_from_extruder ==
    /\ pc = "idle"
    /\ \E t \in Temps, er \in ExtruderReadings :
         Returned("eject_from_extruder", None, t,
                  auto_pause(eject_from_extruder(Self(t, <<FALSE>>, er))))

cmd_eject_before_home ==
    /\ pc = "idle"
    /\ \E t \in Temps, fr \in FindaReadings, er \in ExtruderReadings :
         Returned("eject_before_home", None, t,
                  auto_pause(eject_before_home(Self(t, fr, er))))

cmd_pulley_calibrate ==
    /\ pc = "idle"
    /\ \E t \in Temps, fr \in FindaReadings :
         Returned("pulley_calibrate", None, t,
                  auto_pause(pulley_calibrate(Self(t, fr, <<FALSE>>))))

\* The host takes the result and waits for the next command.
CommandDone ==
    /\ pc = "done"
    /\ pc' = "idle"
    /\ last' = NoCommand
    /\ prev' = IF last.cmd \in {"load_tool", "unselect_tool", "pause"} /\ last.ret
               THEN [cmd |-> last.cmd, arg |-> last.arg, pre |-> last.pre]
               ELSE NoPrev
    /\ UNCHANGED <<is_paused, is_homed, current_tool, current_filament,
                   switch_sensor_enabled, motion_sensor_enabled,
                   enable_no_selector_mode, enable_filament_cutter,
                   idler_positions, selector_positions, last_command_failed,
                   prompt, rendered>>

Init ==
    /\ is_paused = FALSE
    /\ is_homed = FALSE
    /\ current_tool = None
    /\ current_filament = None
    /\ switch_sensor_enabled = TRUE
    /\ motion_sensor_enabled \in BOOLEAN
    /\ enable_no_selector_mode \in BOOLEAN
    /\ enable_filament_cutter \in BOOLEAN
    /\ idler_positions = DefaultIdlerPositions
    /\ selector_positions = DefaultSelectorPositions
    /\ last_command_failed = NoFailure
    /\ last = NoCommand
    /\ prev = NoPrev
    /\ pc = "idle"
    /\ prompt = NoPrompt
    /\ rendered = NotRendered

Next ==
    \/ cmd_select_tool
    \/ cmd_unselect_tool
    \/ cmd_home_idler
    \/ cmd_home_mmu_only
    \/ cmd_home_mmu
    \/ cmd_pause
    \/ cmd_resume
    \/ cmd_unlock
    \/ cmd_load_filament_to_finda_in_loop
    \/ cmd_tx
    \/ cmd_kx
    \/ cmd_load_tool
    \/ cmd_unload_tool
    \/ cmd_m702
    \/ cmd_retry_load_filament_to_hotend
    \/ cmd_load_filament_to_hotend
    \/ cmd_retry_unload_filament_from_hotend
    \/ cmd_unload_filament_from_hotend
    \/ cmd_eject_ramming
    \/ cmd_unload_filament_from_hotend_with_ramming
    \/ cmd_load_filament_to_finda
    \/ cmd_load_filament_from_finda_to_extruder
    \/ cmd_load_filament_to_extruder
    \/ cmd_unload_filament_from_finda
    \/ cmd_unload_filament_from_extruder_to_finda
    \/ cmd_unload_filament_from_extruder
    \/ cmd_eject_from_extruder
    \/ cmd_eject_before_home
    \/ cmd_pulley_calibrate
    \/ CommandDone

Spec == Init /\ [][Next]_vars

----------------------------------------------------------------------------
(* What a command requested, read off its trace.                            *)

Steppers == {"pulley", "selector", "idler"}

\* The positions of the trace that are calls on a stepper: a move, a homing
\* move, a zeroing of the position, an enable or a disable.
ActuatorCalls(tr) == {i \in DOMAIN tr : tr[i][1] \in Steppers}

\* The positions of the trace that are the request op on dev.
Calls(tr, dev, op) == {i \in DOMAIN tr : tr[i][1] = dev /\ tr[i][2] = op}

\* The positions that move the idler or the selector.
SelectionMoves(tr) ==
    {i \in DOMAIN tr : /\ tr[i][1] \in {"idler", "selector"}
                       /\ tr[i][2] \in {"move", "homing_move",
                                        "slow_homing_move", "cut_move"}}

\* The values a sensor gave, in the order they were read.
Readings(tr, dev) ==
    LET IsRead(e) == e[1] = dev /\ e[2] = "read"
        reads == SelectSeq(tr, IsRead)
    IN  [i \in DOMAIN reads |-> reads[i][3] = 1]

\* The trace ends with do_enable(False) on the pulley, the selector and the
\* idler.
EndsWithSteppersDisabled(tr) ==
    /\ Len(tr) >= 3
    /\ SubSeq(tr, Len(tr) - 2, Len(tr)) =
         <<(<<"pulley", "disable", 0>>), (<<"selector", "disable", 0>>),
           (<<"idler", "disable", 0>>)>>

----------------------------------------------------------------------------
(* Claims.                                                                  *)

\* C1: for every integer tool_id outside [0, number_of_tools), SELECT_TOOL on
\* a homed, unpaused unit returns failure, asks for no idler or selector
\* move, and leaves current_tool as it was.
C1_SelectToolRejectsInvalidId ==
    ( /\ pc = "done"
      /\ last.cmd = "select_tool"
      /\ last.arg # None
      /\ last.arg \notin ToolIds
      /\ last.pre.is_homed
      /\ ~last.pre.is_paused )
    => ( /\ ~last.exc
         /\ ~last.ret
         /\ SelectionMoves(last.trace) = {}
         /\ current_tool = last.pre.current_tool )

\* C2: on a paused unit each of select_tool, load_tool, unload_tool, the Tx
\* tool change, home_mmu and home_mmu_only returns failure and makes no call
\* on a stepper.
C2_PauseGating ==
    ( /\ pc = "done"
      /\ last.cmd \in {"select_tool", "load_tool", "unload_tool", "tx",
                       "home_mmu", "home_mmu_only"}
      /\ last.pre.is_paused )
    => ( /\ ~last.exc
         /\ ~last.ret
         /\ ActuatorCalls(last.trace) = {} )

\* The Tx command found the unit as home() leaves it, in selector mode, with
\* the hotend hot, and the sensors confirm at the first attempt: the FINDA
\* reads empty before the load and triggered after the first feed, the
\* extruder switch reads filament whenever it is asked.
C3_Scenario ==
    /\ pc = "done"
    /\ last.cmd = "tx"
    /\ ~enable_no_selector_mode
    /\ last.pre.is_homed
    /\ ~last.pre.is_paused
    /\ last.pre.current_tool = None
    /\ last.pre.current_filament = None
    /\ last.temp >= min_temp_extruder
    /\ LET f == Readings(last.trace, "finda")
           e == Readings(last.trace, "extruder_sensor")
       IN  /\ Len(f) >= 2
           /\ ~f[1]
           /\ f[2]
           /\ \A i \in DOMAIN e : e[i]

\* C3: in that scenario Tx returns success with current_filament = id, the
\* unit not paused, and its last requests disable the pulley, the selector
\* and the idler.
C3_ChangeToolSucceeds ==
    C3_Scenario
    => ( /\ last.ret
         /\ ~last.exc
         /\ current_filament = last.arg
         /\ ~is_paused
         /\ EndsWithSteppersDisabled(last.trace) )

C3_Witness ==
    /\ C3_Scenario
    /\ last.ret
    /\ current_filament = last.arg
    /\ last.arg = number_of_tools - 1

\* The Tx command found a homed, unpaused unit with no tracked filament, and
\* every reading of the FINDA during the command was "not triggered".
C4_Scenario ==
    /\ pc = "done"
    /\ last.cmd = "tx"
    /\ last.pre.is_homed
    /\ ~last.pre.is_paused
    /\ last.pre.current_filament = None
    /\ LET f == Readings(last.trace, "finda")
       IN  \A i \in DOMAIN f : ~f[i]

\* What C4 expects of the command: tool_change_retry calls of unload_tool and
\* of load_tool(id), the steppers disabled after them, one prompt with the
\* buttons Unlock MMU, Home MMU, Retry T<id> and Resume, failure returned and
\* the unit paused.
C4_Exhausted ==
    LET tr == last.trace
        loads == {i \in Calls(tr, "call", "load_tool") : tr[i][3] = last.arg}
        prompts == Calls(tr, "prompt", "begin")
    IN  /\ ~last.ret
        /\ ~last.exc
        /\ is_paused
        /\ Cardinality(Calls(tr, "call", "unload_tool")) = tool_change_retry
        /\ Cardinality(loads) = tool_change_retry
        /\ Cardinality(prompts) = 1
        /\ Cardinality(Calls(tr, "prompt", "show")) = 1
        /\ \A p \in prompts :
             /\ \A i \in loads : i < p
             /\ p > 3
             /\ SubSeq(tr, p - 3, p - 1) =
                  <<(<<"pulley", "disable", 0>>), (<<"selector", "disable", 0>>),
                    (<<"idler", "disable", 0>>)>>
        /\ \E i \in Calls(tr, "prompt_button", "Retry T") : tr[i][3] = last.arg
        /\ Calls(tr, "prompt_button", "Unlock MMU") # {}
        /\ Calls(tr, "prompt_button", "Home MMU") # {}
        /\ Calls(tr, "prompt_footer_button", "Resume") # {}

\* C4 as stated: if the FINDA never triggers, Tx on a homed, unpaused unit
\* with no tracked filament makes exactly tool_change_retry unload+load
\* attempts, disables the steppers, renders one prompt with Retry T<id>,
\* returns failure and leaves the unit paused.
C4_NeverTriggersExhausts == C4_Scenario => C4_Exhausted

\* C4 amended: the same, for a unit in selector mode (in no-selector mode the
\* load does not consult the FINDA).
C4_NeverTriggersExhaustsSelectorMode ==
    (C4_Scenario /\ ~enable_no_selector_mode) => C4_Exhausted

C4_Witness ==
    /\ C4_Scenario
    /\ ~enable_no_selector_mode
    /\ last.temp >= min_temp_extruder
    /\ Cardinality(Calls(last.trace, "pulley", "homing_move")) >= tool_change_retry
    /\ is_paused
    /\ Calls(last.trace, "prompt", "show") # {}

\* An unload_tool that succeeded right after a load_tool(t) that succeeded on
\* a homed, unpaused unit with no tool selected and no filament tracked.
C5_Scenario ==
    /\ pc = "done"
    /\ last.cmd = "unload_tool"
    /\ last.ret
    /\ prev.cmd = "load_tool"
    /\ prev.pre.is_homed
    /\ ~prev.pre.is_paused
    /\ prev.pre.current_tool = None
    /\ prev.pre.current_filament = None

AutoPausedCommands ==
    {"select_tool", "unselect_tool", "home_idler", "home_mmu_only", "home_mmu",
     "load_filament_to_finda_in_loop", "tx", "kx", "load_tool", "unload_tool",
     "m702", "retry_load_filament_to_hotend", "load_filament_to_hotend",
     "retry_unload_filament_from_hotend", "unload_filament_from_hotend",
     "eject_ramming", "unload_filament_from_hotend_with_ramming",
     "load_filament_to_finda", "load_filament_from_finda_to_extruder",
     "load_filament_to_extruder", "unload_filament_from_finda",
     "unload_filament_from_extruder_to_finda", "unload_filament_from_extruder",
     "eject_from_extruder", "eject_before_home", "pulley_calibrate"}

\* C8: when a command wrapped by auto_pause returns failure the unit is
\* paused on return, and pause() was called once if the unit was not paused
\* and not at all if it was (no handler changes is_paused before it returns
\* to the wrapper, so the unit is paused at that point iff it was on entry).
C8_AutoPause ==
    ( /\ pc = "done"
      /\ last.cmd \in AutoPausedCommands
      /\ ~last.exc
      /\ ~last.ret )
    => ( /\ is_paused
         /\ Cardinality(Calls(last.trace, "call", "pause")) =
              IF last.pre.is_paused THEN 0 ELSE 1
         /\ Cardinality(Calls(last.trace, "gcode", "pause_script")) =
              IF last.pre.is_paused THEN 0 ELSE 1 )

C8_Witness ==
    /\ pc = "done"
    /\ last.cmd = "unload_filament_from_extruder"
    /\ ~last.ret
    /\ ~last.pre.is_paused
    /\ is_paused
    /\ Cardinality(Calls(last.trace, "call", "pause")) = 1

\* C9: however Tx is left, the enabled flag of the switch sensor and that of
\* the motion sensor are what they were when it was entered.
C9_SensorFlagsRestored ==
    ( /\ pc = "done"
      /\ last.cmd = "tx" )
    => ( /\ switch_sensor_enabled = last.pre.switch_sensor_enabled
         /\ motion_sensor_enabled = last.pre.motion_sensor_enabled )

\* A Tx that found the switch sensor disabled, loaded the tool (which writes
\* the flag TRUE on the way) and left the flag disabled again.
C9_Witness ==
    /\ pc = "done"
    /\ last.cmd = "tx"
    /\ last.ret
    /\ ~last.pre.switch_sensor_enabled
    /\ Calls(last.trace, "switch_sensor", "enable") # {}
    /\ ~switch_sensor_enabled
    /\ motion_sensor_enabled = last.pre.motion_sensor_enabled

\* C10: between the entry of Tx's guarded section and its exit no sensor flag
\* is written TRUE, so both sensors are disabled in every intermediate state.
C10_SensorsStayDisabled ==
    ( /\ pc = "done"
      /\ last.cmd = "tx" )
    => LET tr == last.trace IN
       \A a \in Calls(tr, "tx", "guard_enter"), b \in Calls(tr, "tx", "guard_exit") :
         \A i \in (a + 1)..(b - 1) :
           ~( /\ tr[i][1] \in {"switch_sensor", "motion_sensor"}
              /\ tr[i][2] = "enable" )

----------------------------------------------------------------------------
(* The replay-capable variant of resume.  MMU3.__init__ declares            *)
(* _last_command_failed with its arguments and cmd_tx carries the           *)
(* commented-out decorator store_failed_cmd; the decorator and the resume   *)
(* that replays are described by the specification only: a failed command   *)
(* is recorded with its arguments, and resume clears is_paused, runs the    *)
(* recorded command again unless it is resume itself, and a success clears  *)
(* the record while a failure pauses the unit again.                        *)

\* The decorator store_failed_cmd around an auto_pause'd handler that has run
\* to s: a failure is recorded with its arguments, a success clears the record.
store_failed_cmd(s, cmd, arg) ==
    IF s.exc THEN s
    ELSE IF ~s.ret
    THEN [s EXCEPT !.last_command_failed = [cmd |-> cmd, arg |-> arg]]
    ELSE [s EXCEPT !.last_command_failed = NoFailure]

\* The recorded command, run again as the host would run it.
run_recorded(s, rec) ==
    IF rec.cmd = "load_tool"
    THEN store_failed_cmd(auto_pause(load_tool(s, rec.arg)), rec.cmd, rec.arg)
    ELSE store_failed_cmd(auto_pause(cmd_tx_body(s, rec.arg)), rec.cmd, rec.arg)

resume_with_replay(s) ==
    LET rec == s.last_command_failed IN
    IF rec.cmd \in {"none", "resume"}
    THEN Ret(Ev([s EXCEPT !.is_paused = FALSE], "gcode", "resume_script", 0),
             TRUE)
    ELSE
      Bind(run_recorded(Ev([s EXCEPT !.is_paused = FALSE],
                           "replay", rec.cmd, rec.arg), rec), LAMBDA s1 :
      IF s1.exc THEN s1
      ELSE Ret(Ev(Ev(s1, "replay_result", rec.cmd, B2I(s1.ret)),
                  "gcode", "resume_script", 0), s1.ret))

recorded_cmd_load_tool ==
    /\ pc = "idle"
    /\ \E tool_id \in ToolIds, t \in Temps,
          fr \in FindaReadings, er \in ExtruderReadings :
         Returned("load_tool", tool_id, t,
                  store_failed_cmd(auto_pause(load_tool(Self(t, fr, er), tool_id)),
                                   "load_tool", tool_id))

recorded_cmd_tx ==
    /\ pc = "idle"
    /\ \E tool_id \in ToolIds, t \in Temps,
          fr \in FindaReadings, er \in ExtruderReadings :
         Returned("tx", tool_id, t,
                  store_failed_cmd(auto_pause(cmd_tx_body(Self(t, fr, er), tool_id)),
                                   "tx", tool_id))

replay_cmd_resume ==
    /\ pc = "idle"
    /\ \E t \in Temps, fr \in FindaReadings, er \in ExtruderReadings :
         Returned("resume", None, t, resume_with_replay(Self(t, fr, er)))

NextReplay ==
    \/ cmd_home_mmu_only
    \/ cmd_unlock
    \/ recorded_cmd_load_tool
    \/ recorded_cmd_tx
    \/ replay_cmd_resume
    \/ CommandDone

SpecReplay == Init /\ [][NextReplay]_vars

\* A resume that found a recorded failed command.
C7_Scenario ==
    /\ pc = "done"
    /\ last.cmd = "resume"
    /\ last.pre.last_command_failed.cmd # "none"

----------------------------------------------------------------------------
(* Claims about the tool change, the load and the unload.                   *)

\* The number of positions of the set ps that come before position i.
Before(ps, i) == Cardinality({p \in ps : p < i})

\* C11: in a Tx every home_mmu() is called on the last of the
\* tool_change_retry attempts, after that attempt's unload_tool and before
\* its load_tool, and a Tx that ran out of attempts and showed the prompt
\* has called home_mmu() exactly once.
C11_ForcedHomeOnFinalAttempt ==
    ( /\ pc = "done"
      /\ last.cmd = "tx"
      /\ ~last.exc )
    => LET tr == last.trace
           homes == Calls(tr, "call", "home_mmu")
           unloads == Calls(tr, "call", "unload_tool")
           loads == Calls(tr, "call", "load_tool")
       IN  /\ \A h \in homes :
                /\ Before(unloads, h) = tool_change_retry
                /\ Cardinality({l \in loads : l > h}) = 1
           /\ Calls(tr, "prompt", "show") # {} => Cardinality(homes) = 1

\* C12: a Tx for the tool whose filament is tracked returns success, makes no
\* call on a stepper, writes no sensor flag and leaves is_homed, is_paused,
\* current_tool and current_filament as they were.
C12_ChangeToolNoOp ==
    ( /\ pc = "done"
      /\ last.cmd = "tx"
      /\ last.pre.current_filament = last.arg )
    => ( /\ last.ret
         /\ ~last.exc
         /\ ActuatorCalls(last.trace) = {}
         /\ \A i \in DOMAIN last.trace :
              last.trace[i][1] \notin {"switch_sensor", "motion_sensor"}
         /\ switch_sensor_enabled = last.pre.switch_sensor_enabled
         /\ motion_sensor_enabled = last.pre.motion_sensor_enabled
         /\ is_homed = last.pre.is_homed
         /\ is_paused = last.pre.is_paused
         /\ current_tool = last.pre.current_tool
         /\ current_filament = last.pre.current_filament )

\* A Tx for the loaded tool, with filament in the extruder and in the FINDA.
C12_Witness ==
    /\ pc = "done"
    /\ last.cmd = "tx"
    /\ last.pre.current_filament = last.arg
    /\ last.pre.current_tool = None
    /\ last.pre.is_homed
    /\ ~last.pre.is_paused
    /\ last.temp >= min_temp_extruder
    /\ last.ret
    /\ current_filament = last.arg

\* The positions where the method name returned the value v (1 success,
\* 0 failure).
ReturnedWith(tr, name, v) == {i \in Calls(tr, "return", name) : tr[i][3] = v}

\* Every position of A comes before every position of B.
AllBefore(A, B) == \A a \in A, b \in B : a < b

\* The positions of the transport requests: the pulley's moves and the
\* extruder's feeds and retractions.
FeedRequests(tr) ==
    {i \in DOMAIN tr :
        \/ tr[i][1] = "pulley" /\ tr[i][2] \in {"move", "homing_move"}
        \/ tr[i][1] = "gcode" /\ tr[i][2] \in {"extruder_feed", "extruder_retract"}}

\* The methods stages (without those whose index is in skipped) are each
\* called at most once, in their order, each only after the one before it
\* returned success; every transport request is made inside one of them;
\* once one of them has returned failure the result ret is failure and no
\* transport request and no stage call follows.
StagesRunInOrder(tr, stages, skipped, ret) ==
    LET C(k) == Calls(tr, "call", stages[k])
        R(k) == Calls(tr, "return", stages[k])
        Ok(k) == ReturnedWith(tr, stages[k], 1)
        Inside(i) == \E k \in DOMAIN stages :
                       \E c \in C(k), r \in R(k) : c < i /\ i < r
    IN  /\ \A k \in DOMAIN stages :
             /\ Cardinality(C(k)) <= 1
             /\ Cardinality(R(k)) = Cardinality(C(k))
             /\ AllBefore(C(k), R(k))
             /\ k \in skipped => C(k) = {}
             /\ \A j \in DOMAIN stages :
                  (j < k /\ C(k) # {} /\ j \notin skipped)
                    => (Ok(j) # {} /\ AllBefore(R(j), C(k)))
        /\ \A i \in FeedRequests(tr) : Inside(i)
        /\ \A k \in DOMAIN stages :
             \A r \in ReturnedWith(tr, stages[k], 0) :
               /\ ~ret
               /\ \A i \in FeedRequests(tr) : i < r
               /\ \A j \in DOMAIN stages : AllBefore(C(j), {r})
        /\ ret => \A k \in DOMAIN stages : k \notin skipped => Ok(k) # {}

\* The stages of load_tool after the temperature check, in their order.
LoadStages ==
    <<"select_tool", "load_filament_to_finda",
      "load_filament_from_finda_to_extruder", "load_filament_to_hotend">>

\* C13: LOAD_TOOL on an unpaused unit checks the temperature, then calls
\* select_tool, load_filament_to_finda (not in no-selector mode),
\* load_filament_from_finda_to_extruder and load_filament_to_hotend, each at
\* most once, in that order and each only after the one before it returned
\* success; every pulley move and extruder feed is made inside one of them;
\* once one of them has returned failure load_tool returns failure and no
\* pulley move, extruder feed or later stage follows.
C13_LoadToolStages ==
    ( /\ pc = "done"
      /\ last.cmd = "load_tool"
      /\ ~last.pre.is_paused
      /\ ~last.exc )
    => /\ last.temp < min_temp_extruder =>
            ( /\ ~last.ret
              /\ \A k \in DOMAIN LoadStages :
                   Calls(last.trace, "call", LoadStages[k]) = {} )
       /\ \A c \in Calls(last.trace, "call", "select_tool") :
            last.trace[c][3] = last.arg
       /\ StagesRunInOrder(last.trace, LoadStages,
                           IF enable_no_selector_mode THEN {2} ELSE {}, last.ret)

\* A LOAD_TOOL in selector mode whose FINDA stage failed after all its feeds.
C13_Witness ==
    /\ pc = "done"
    /\ last.cmd = "load_tool"
    /\ ~last.pre.is_paused
    /\ ~enable_no_selector_mode
    /\ ~last.exc
    /\ ~last.ret
    /\ ReturnedWith(last.trace, "select_tool", 1) # {}
    /\ ReturnedWith(last.trace, "load_filament_to_finda", 0) # {}
    /\ Cardinality(Calls(last.trace, "pulley", "homing_move")) = finda_load_retry

\* C14: LOAD_TOOL with the hotend below min_temp_extruder returns failure,
\* makes no call on a stepper and no extruder feed, and leaves current_tool
\* and current_filament as they were.
C14_LoadToolNeedsHotHotend ==
    ( /\ pc = "done"
      /\ last.cmd = "load_tool"
      /\ last.temp < min_temp_extruder )
    => ( /\ ~last.ret
         /\ ~last.exc
         /\ ActuatorCalls(last.trace) = {}
         /\ FeedRequests(last.trace) = {}
         /\ Calls(last.trace, "call", "select_tool") = {}
         /\ current_tool = last.pre.current_tool
         /\ current_filament = last.pre.current_filament )

\* A cold LOAD_TOOL of a tool of a homed, unpaused unit.
C14_Witness ==
    /\ pc = "done"
    /\ last.cmd = "load_tool"
    /\ last.temp < min_temp_extruder
    /\ last.arg \in ToolIds
    /\ last.pre.is_homed
    /\ ~last.pre.is_paused
    /\ ~last.ret
    /\ is_paused

\* An UNLOAD_TOOL on an unpaused unit with no filament tracked.
C15_Scenario ==
    /\ pc = "done"
    /\ last.cmd = "unload_tool"
    /\ ~last.pre.is_paused
    /\ last.pre.current_filament = None

\* C15: UNLOAD_TOOL with no tracked filament reads the FINDA once and calls
\* no stepper.  Triggered with a tool t selected: current_filament becomes t
\* and it returns success.  Triggered with no tool selected: it returns
\* failure having changed nothing (the pause that follows is the wrapper's).
\* Not triggered: it returns success having changed nothing.
C15_UnloadToolSelfHealing ==
    C15_Scenario
    => LET tr == last.trace
           f == Readings(tr, "finda")
           t == last.pre.current_tool
       IN  /\ ~last.exc
           /\ Len(f) = 1
           /\ ActuatorCalls(tr) = {}
           /\ SubSeq(tr, 1, 3) =
                <<(<<"call", "unload_tool", 0>>),
                  (<<"finda", "read", B2I(f[1])>>),
                  (<<"return", "unload_tool", B2I(last.ret)>>)>>
           /\ is_homed = last.pre.is_homed
           /\ current_tool = t
           /\ switch_sensor_enabled = last.pre.switch_sensor_enabled
           /\ motion_sensor_enabled = last.pre.motion_sensor_enabled
           /\ (f[1] /\ t # None) =>
                (last.ret /\ current_filament = t /\ ~is_paused /\ Len(tr) = 3)
           /\ (f[1] /\ t = None) =>
                ( /\ ~last.ret
                  /\ current_filament = None
                  /\ SubSeq(tr, 4, Len(tr)) =
                       <<(<<"call", "pause", 0>>), (<<"gcode", "pause_script", 0>>)>> )
           /\ ~f[1] =>
                (last.ret /\ current_filament = None /\ ~is_paused /\ Len(tr) = 3)

\* The FINDA is triggered, a tool is selected: the tool is adopted.
C15_Witness ==
    /\ C15_Scenario
    /\ last.pre.current_tool \in ToolIds
    /\ Readings(last.trace, "finda") = <<TRUE>>
    /\ last.ret
    /\ current_filament = last.pre.current_tool

\* The stages of unload_tool with a tracked filament, in their order.
UnloadStages ==
    <<"unload_filament_from_hotend", "select_tool",
      "unload_filament_from_extruder_to_finda", "unload_filament_from_finda">>

\* An UNLOAD_TOOL on an unpaused unit that tracks a filament.
C16_Scenario ==
    /\ pc = "done"
    /\ last.cmd = "unload_tool"
    /\ ~last.pre.is_paused
    /\ last.pre.current_filament # None
    /\ ~last.exc

\* C16: UNLOAD_TOOL with a tracked filament f calls
\* unload_filament_from_hotend, select_tool(f),
\* unload_filament_from_extruder_to_finda and unload_filament_from_finda (not
\* in no-selector mode), each at most once, in that order, each after the one
\* before returned success, and nothing of a later stage after a failure; in
\* selector mode it returns success only with current_filament = None and the
\* last reading of the FINDA not triggered.
C16_UnloadToolStages ==
    C16_Scenario
    => LET tr == last.trace
           f == Readings(tr, "finda")
       IN  /\ \A c \in Calls(tr, "call", "select_tool") :
                tr[c][3] = last.pre.current_filament
           /\ StagesRunInOrder(tr, UnloadStages,
                               IF enable_no_selector_mode THEN {4} ELSE {},
                               last.ret)
           /\ (last.ret /\ ~enable_no_selector_mode) =>
                ( /\ current_filament = None
                  /\ Len(f) >= 1
                  /\ ~f[Len(f)] )

\* An UNLOAD_TOOL in selector mode that retracted from the hotend, found the
\* FINDA still triggered after the bowden move, freed it in the loop and
\* parked the filament.
C16_Witness ==
    /\ C16_Scenario
    /\ ~enable_no_selector_mode
    /\ last.ret
    /\ current_filament = None
    /\ Calls(last.trace, "gcode", "extruder_retract") # {}
    /\ ReturnedWith(last.trace, "unload_filament_from_finda", 1) # {}
    /\ \E i \in DOMAIN Readings(last.trace, "finda") :
         Readings(last.trace, "finda")[i]

----------------------------------------------------------------------------
(* Claims about selection and homing.                                       *)

\* The parked entry of the idler table: idler_positions[-1].
ParkedIdlerPosition == idler_positions[Len(idler_positions)]

\* C17: every UNSELECT_TOOL on a homed, unpaused unit returns success, asks
\* for exactly the idler's move to the parked position and leaves
\* current_tool = None; when it follows another UNSELECT_TOOL it changes no
\* field of the unit.
C17_UnselectToolIdempotent ==
    ( /\ pc = "done"
      /\ last.cmd = "unselect_tool"
      /\ last.pre.is_homed
      /\ ~last.pre.is_paused )
    => ( /\ last.ret
         /\ ~last.exc
         /\ last.trace = <<(<<"idler", "move", ParkedIdlerPosition>>)>>
         /\ current_tool = None
         /\ prev.cmd = "unselect_tool" =>
              (last.pre.current_tool = None /\ Unit = last.pre) )

\* The second of two UNSELECT_TOOLs, the first of which parked a selected tool.
C17_Witness ==
    /\ pc = "done"
    /\ last.cmd = "unselect_tool"
    /\ prev.cmd = "unselect_tool"
    /\ prev.pre.current_tool \in ToolIds
    /\ last.pre.is_homed
    /\ ~last.pre.is_paused
    /\ last.ret
    /\ last.trace = <<(<<"idler", "move", ParkedIdlerPosition>>)>>
    /\ current_tool = None

\* C18: on a unit that is not homed SELECT_TOOL, with any id, and
\* UNSELECT_TOOL return failure, ask for no move of the idler or the
\* selector and leave current_tool as it was.
C18_SelectionNeedsHoming ==
    ( /\ pc = "done"
      /\ last.cmd \in {"select_tool", "unselect_tool"}
      /\ ~last.pre.is_homed )
    => ( /\ ~last.ret
         /\ ~last.exc
         /\ SelectionMoves(last.trace) = {}
         /\ current_tool = last.pre.current_tool )

\* A SELECT_TOOL of a tool on an unpaused unit that was never homed.
C18_Witness ==
    /\ pc = "done"
    /\ last.cmd = "select_tool"
    /\ last.arg \in ToolIds
    /\ ~last.pre.is_homed
    /\ ~last.pre.is_paused
    /\ ~last.ret
    /\ current_tool = None

\* The requests of home_idler, and those of the selector's homing: the fast
\* pass, the back-off, the slow pass.
IdlerHomingRequests ==
    <<(<<"idler", "set_position", 0>>),
      (<<"idler", "move", idler_homing_move_lengths[1]>>),
      (<<"idler", "move", idler_homing_move_lengths[2]>>),
      (<<"idler", "set_position", 0>>),
      (<<"idler", "move", ParkedIdlerPosition>>)>>

SelectorHomingRequests ==
    <<(<<"selector", "set_position", 0>>),
      (<<"selector", "homing_move", -Abs(selector_homing_move_length)>>),
      (<<"selector", "set_position", 0>>),
      (<<"selector", "move", 3>>),
      (<<"selector", "set_position", 0>>),
      (<<"selector", "slow_homing_move", -Abs(selector_homing_move_length)>>),
      (<<"selector", "set_position", 0>>)>>

\* The requests made of the stepper dev, without the disabling, in order.
RequestsOf(tr, dev) ==
    LET Asked(e) == e[1] = dev /\ e[2] # "disable"
    IN  SelectSeq(tr, Asked)

\* C19: HOME_MMU_ONLY on an unpaused unit, homed or not, first homes the
\* idler, then, unless in no-selector mode, homes the selector with the fast
\* pass and then the slow pass (in no-selector mode it asks nothing of the
\* selector), and returns success with is_homed, current_tool = None,
\* current_filament = None and the idler last sent to its parked position; on
\* a paused unit it returns failure with no call on a stepper and no field
\* changed.
C19_HomeOnly ==
    ( /\ pc = "done"
      /\ last.cmd = "home_mmu_only" )
    => LET tr == last.trace
           idler == RequestsOf(tr, "idler")
           selector == RequestsOf(tr, "selector")
       IN  /\ ~last.exc
           /\ ~last.pre.is_paused =>
                ( /\ last.ret
                  /\ is_homed
                  /\ ~is_paused
                  /\ current_tool = None
                  /\ current_filament = None
                  /\ SubSeq(tr, 2, 6) = IdlerHomingRequests
                  /\ selector = IF enable_no_selector_mode
                                THEN <<>> ELSE SelectorHomingRequests
                  /\ \A i \in DOMAIN tr :
                       (tr[i][1] = "selector" /\ tr[i][2] # "disable") => i > 6
                  /\ idler[Len(idler)] = <<"idler", "move", ParkedIdlerPosition>>
                  /\ EndsWithSteppersDisabled(SubSeq(tr, 1, Len(tr) - 1)) )
           /\ last.pre.is_paused =>
                ( /\ ~last.ret
                  /\ ActuatorCalls(tr) = {}
                  /\ Unit = last.pre )

\* A HOME_MMU_ONLY in selector mode on a unit with a tool selected.
C19_Witness ==
    /\ pc = "done"
    /\ last.cmd = "home_mmu_only"
    /\ ~last.pre.is_paused
    /\ last.pre.current_tool \in ToolIds
    /\ ~enable_no_selector_mode
    /\ last.ret
    /\ is_homed
    /\ current_tool = None
    /\ Calls(last.trace, "selector", "slow_homing_move") # {}

\* The positions of the homing requests: the idler's zeroing and homing
\* moves, the selector's zeroing and homing passes.
HomingRequests(tr) ==
    {i \in DOMAIN tr :
        \/ /\ tr[i][1] = "idler"
           /\ \/ tr[i][2] = "set_position"
              \/ /\ tr[i][2] = "move"
                 /\ tr[i][3] \in {idler_homing_move_lengths[1],
                                  idler_homing_move_lengths[2]}
        \/ /\ tr[i][1] = "selector"
           /\ tr[i][2] \in {"set_position", "homing_move", "slow_homing_move"}}

\* C20: HOME_MMU disables the switch sensor first, calls eject_before_home
\* and, only after that returned success, home_mmu_only; when
\* eject_before_home fails it returns failure and no homing request is made;
\* no write enables the switch sensor before the last one, which puts the
\* flag back to its value on entry, whatever HOME_MMU returns.
C20_HomeEjectsFirst ==
    ( /\ pc = "done"
      /\ last.cmd = "home_mmu"
      /\ ~last.exc )
    => LET tr == last.trace
           ejects == Calls(tr, "call", "eject_before_home")
           homes == Calls(tr, "call", "home_mmu_only")
           restored == IF last.pre.switch_sensor_enabled
                       THEN "enable" ELSE "disable"
       IN  /\ Cardinality(ejects) = 1
           /\ Cardinality(homes) <= 1
           /\ homes # {} =>
                /\ ReturnedWith(tr, "eject_before_home", 1) # {}
                /\ AllBefore(Calls(tr, "return", "eject_before_home"), homes)
           /\ \A h \in HomingRequests(tr) : \E c \in homes : c < h
           /\ ReturnedWith(tr, "eject_before_home", 0) # {} =>
                (~last.ret /\ homes = {} /\ HomingRequests(tr) = {})
           /\ tr[2] = <<"switch_sensor", "disable", 0>>
           /\ AllBefore({2}, ejects)
           /\ \A r \in Calls(tr, "return", "home_mmu") :
                /\ tr[r - 1] = <<"switch_sensor", restored, 0>>
                /\ tr[r][3] = B2I(last.ret)
                /\ \A i \in 2..(r - 2) :
                     ~(tr[i][1] = "switch_sensor" /\ tr[i][2] = "enable")
           /\ Cardinality(Calls(tr, "return", "home_mmu")) = 1
           /\ switch_sensor_enabled = last.pre.switch_sensor_enabled

\* A HOME_MMU whose eject flow failed, with the switch sensor enabled before
\* and after.
C20_Witness ==
    /\ pc = "done"
    /\ last.cmd = "home_mmu"
    /\ ~last.pre.is_paused
    /\ last.pre.switch_sensor_enabled
    /\ ReturnedWith(last.trace, "eject_before_home", 0) # {}
    /\ ~last.ret
    /\ switch_sensor_enabled

----------------------------------------------------------------------------
(* Claims about pause, resume and unlock.                                   *)

\* C21: UNLOCK_MMU leaves the unit not paused, requests exactly the idler's
\* homing (nothing of the selector or the pulley) and leaves is_homed,
\* current_tool and current_filament as they were.
C21_UnlockHomesIdlerOnly ==
    ( /\ pc = "done"
      /\ last.cmd = "unlock" )
    => ( /\ last.ret
         /\ ~last.exc
         /\ ~is_paused
         /\ last.trace = IdlerHomingRequests
         /\ \A i \in DOMAIN last.trace :
              last.trace[i][1] \notin {"selector", "pulley"}
         /\ is_homed = last.pre.is_homed
         /\ current_tool = last.pre.current_tool
         /\ current_filament = last.pre.current_filament )

\* An UNLOCK_MMU on a paused unit that tracks a filament.
C21_Witness ==
    /\ pc = "done"
    /\ last.cmd = "unlock"
    /\ last.pre.is_paused
    /\ last.pre.is_homed
    /\ last.pre.current_filament \in ToolIds
    /\ ~is_paused
    /\ current_filament = last.pre.current_filament

\* C22: PAUSE_MMU and RESUME_MMU call no stepper and leave is_homed,
\* current_tool and current_filament as they were; PAUSE_MMU leaves the unit
\* paused with the hotend temperature recorded, RESUME_MMU leaves it not
\* paused and issues the resume script exactly once; a RESUME_MMU right after
\* a PAUSE_MMU finds and leaves the mechanical state the pause found.
C22_PauseResumeKeepMechanicalState ==
    ( /\ pc = "done"
      /\ last.cmd \in {"pause", "resume"} )
    => ( /\ last.ret
         /\ ~last.exc
         /\ ActuatorCalls(last.trace) = {}
         /\ is_homed = last.pre.is_homed
         /\ current_tool = last.pre.current_tool
         /\ current_filament = last.pre.current_filament
         /\ last.cmd = "pause" =>
              (is_paused /\ last.extruder_temp = last.temp)
         /\ last.cmd = "resume" =>
              ( /\ ~is_paused
                /\ Cardinality(Calls(last.trace, "gcode", "resume_script")) = 1
                /\ Len(last.trace) = 1 )
         /\ (last.cmd = "resume" /\ prev.cmd = "pause") =>
              ( /\ last.pre.is_paused
                /\ is_homed = prev.pre.is_homed
                /\ current_tool = prev.pre.current_tool
                /\ current_filament = prev.pre.current_filament ) )

\* A RESUME_MMU right after the PAUSE_MMU of a homed unit that tracked a
\* filament and was not paused.
C22_Witness ==
    /\ pc = "done"
    /\ last.cmd = "resume"
    /\ prev.cmd = "pause"
    /\ ~prev.pre.is_paused
    /\ prev.pre.is_homed
    /\ prev.pre.current_filament \in ToolIds
    /\ ~is_paused
    /\ is_homed
    /\ current_filament = prev.pre.current_filament

\* C23: every PAUSE_MMU leaves the unit paused and issues the pause script
\* exactly once; one that follows another PAUSE_MMU changes none of
\* is_paused, is_homed, current_tool and current_filament.
C23_PauseIdempotentOnFlags ==
    ( /\ pc = "done"
      /\ last.cmd = "pause" )
    => ( /\ last.ret
         /\ is_paused
         /\ Cardinality(Calls(last.trace, "gcode", "pause_script")) = 1
         /\ prev.cmd = "pause" =>
              ( /\ last.pre.is_paused
                /\ is_paused = last.pre.is_paused
                /\ is_homed = last.pre.is_homed
                /\ current_tool = last.pre.current_tool
                /\ current_filament = last.pre.current_filament ) )

\* The third of three PAUSE_MMUs in a row on a homed unit.
C23_Witness ==
    /\ pc = "done"
    /\ last.cmd = "pause"
    /\ prev.cmd = "pause"
    /\ prev.pre.is_paused
    /\ prev.pre.is_homed
    /\ is_paused
    /\ Cardinality(Calls(last.trace, "gcode", "pause_script")) = 1

----------------------------------------------------------------------------
(* Claims about the cut procedure.                                          *)

\* C24: in every Kx the script that restores the selector's current and
\* stall threshold is issued if and only if the script that overrides them
\* was, and the three requests override, selector cut move to the tool's
\* position, restore follow one another with nothing in between.
C24_OverrideRestorePaired ==
    ( /\ pc = "done"
      /\ last.cmd = "kx" )
    => LET tr == last.trace
           O == Calls(tr, "gcode", "tmc_override")
           R == Calls(tr, "gcode", "tmc_restore")
           M == Calls(tr, "selector", "cut_move")
       IN  /\ Cardinality(O) = Cardinality(R)
           /\ Cardinality(O) <= 1
           /\ \A i \in O :
                /\ i + 2 \in R
                /\ i + 1 \in M
                /\ tr[i + 1][3] = selector_positions[last.arg + 1]
           /\ \A j \in R : j - 2 \in O
           /\ \A m \in M : m - 1 \in O

\* A Kx that made the cut.
C24_Witness ==
    /\ pc = "done"
    /\ last.cmd = "kx"
    /\ last.ret
    /\ Calls(last.trace, "gcode", "tmc_override") # {}
    /\ Calls(last.trace, "gcode", "tmc_restore") # {}

\* The positions of the trace that the command itself called or was returned
\* to at: those with as many calls as returns before them (a pause is logged
\* by its call alone, and is not counted).
Direct(tr) ==
    {i \in DOMAIN tr :
        /\ tr[i][1] \in {"call", "return"}
        /\ Cardinality({j \in 1..(i - 1) : /\ tr[j][1] = "call"
                                            /\ tr[j][2] # "pause"})
             = Cardinality({j \in 1..i : tr[j][1] = "return"})}

\* The stages that cut_filament_in_mmu runs before the cut.
CutPreparation ==
    {"unload_tool", "select_tool", "load_filament_to_finda",
     "unload_filament_from_finda"}

----------------------------------------------------------------------------
(* Claims about failures, the pause check and the unit's invariants.        *)

\* The positions where a stage the command itself called returned failure
\* and the command did not call that stage again afterwards.
FailedAndNotRetried(tr) ==
    {i \in Direct(tr) :
        /\ tr[i][1] = "return"
        /\ tr[i][3] = 0
        /\ \A j \in Direct(tr) :
             ~(j > i /\ tr[j][1] = "call" /\ tr[j][2] = tr[i][2])}

\* C26: a command that returns success has no stage that it called itself,
\* that returned failure and that it did not call again.
C26_NoFailureSwallowed ==
    ( /\ pc = "done"
      /\ ~last.exc
      /\ last.ret )
    => FailedAndNotRetried(last.trace) = {}

\* The commands that are meant to run on a paused unit.
PauseCommands == {"pause", "resume", "unlock"}

\* C27: a command other than pause, resume and unlock that starts on a paused
\* unit calls no stepper and leaves is_homed, current_tool and
\* current_filament as they were.
C27_PausedUnitIsLeftAlone ==
    ( /\ pc = "done"
      /\ last.cmd \notin PauseCommands
      /\ last.pre.is_paused )
    => ( /\ ActuatorCalls(last.trace) = {}
         /\ is_homed = last.pre.is_homed
         /\ current_tool = last.pre.current_tool
         /\ current_filament = last.pre.current_filament )

\* C28: between commands, a selected tool implies a tracked filament.
C28_ToolImpliesFilament ==
    pc = "idle" => (current_tool # None => current_filament # None)

----------------------------------------------------------------------------
(* The position tables: the startup configuration and the commands          *)
(* SET_SELECTOR_POSITIONS and SET_IDLER_POSITIONS.  A VALUE is a string, a  *)
(* sequence of characters.                                                  *)

MaxValueLen == 5

Chars == {",", " ", "5"}

\* The VALUE strings of up to MaxValueLen characters.
Values == UNION {[1..n -> Chars] : n \in 1..MaxValueLen}

\* str.split(","): the pieces between the commas, empty pieces included.
RECURSIVE split(_)
split(v) ==
    IF \A i \in DOMAIN v : v[i] # ","
    THEN <<v>>
    ELSE LET i == CHOOSE k \in DOMAIN v :
                     v[k] = "," /\ \A j \in 1..(k - 1) : v[j] # ","
         IN  <<SubSeq(v, 1, i - 1)>> \o split(SubSeq(v, i + 1, Len(v)))

\* str.strip(): without the blanks at both ends.
RECURSIVE strip(_)
strip(f) ==
    IF f = <<>> THEN f
    ELSE IF f[1] = " " THEN strip(Tail(f))
    ELSE IF f[Len(f)] = " " THEN strip(SubSeq(f, 1, Len(f) - 1))
    ELSE f

Digits == {ToString(d) : d \in 0..9}

DigitValue(c) == CHOOSE d \in 0..9 : ToString(d) = c

\* The number a string of digits writes.
RECURSIVE Decimal(_)
Decimal(f) ==
    IF f = <<>> THEN 0
    ELSE 10 * Decimal(SubSeq(f, 1, Len(f) - 1)) + DigitValue(f[Len(f)])

\* float(f) on the strings of Chars: a ValueError unless f is a non-empty
\* string of digits.
float(f) ==
    IF f # <<>> /\ \A i \in DOMAIN f : f[i] \in Digits
    THEN [ok |-> TRUE, value |-> Decimal(f)]
    ELSE [ok |-> FALSE, value |-> 0]

\* [float(f.strip()) for f in value.split(",")]: the list, or the ValueError
\* of the first piece that is no number.
floats(value) ==
    LET fs == split(value)
    IN  IF \A i \in DOMAIN fs : float(strip(fs[i])).ok
        THEN [ok |-> TRUE, list |-> [i \in DOMAIN fs |-> float(strip(fs[i])).value]]
        ELSE [ok |-> FALSE, list |-> <<>>]

\* The selector's positions are held in thousandths of a millimetre.
Thousandths(list) == [i \in DOMAIN list |-> 1000 * list[i]]

\* The method has no return statement: its result is None.  It reads no
\* sensor and no temperature.
set_selector_positions(s, value) ==
    IF floats(value).ok
    THEN [s EXCEPT !.selector_positions = Thousandths(floats(value).list),
                   !.ret = FALSE]
    ELSE Raise(s)

set_idler_positions(s, value) ==
    IF floats(value).ok
    THEN [s EXCEPT !.idler_positions = floats(value).list, !.ret = FALSE]
    ELSE Raise(s)

cmd_set_selector_positions ==
    /\ pc = "idle"
    /\ \E value \in Values :
         Returned("set_selector_positions", None, min_temp_extruder,
                  set_selector_positions(
                      Self(min_temp_extruder, <<FALSE>>, <<FALSE>>), value))

cmd_set_idler_positions ==
    /\ pc = "idle"
    /\ \E value \in Values :
         Returned("set_idler_positions", None, min_temp_extruder,
                  set_idler_positions(
                      Self(min_temp_extruder, <<FALSE>>, <<FALSE>>), value))

\* The unit after __init__ with both tables read from the configuration; an
\* option that is no list of numbers stops the start.
InitTables ==
    /\ is_paused = FALSE
    /\ is_homed = FALSE
    /\ current_tool = None
    /\ current_filament = None
    /\ switch_sensor_enabled = TRUE
    /\ motion_sensor_enabled = FALSE
    /\ enable_no_selector_mode \in BOOLEAN
    /\ enable_filament_cutter = FALSE
    /\ \E v \in Values :
         /\ floats(v).ok
         /\ idler_positions = floats(v).list
    /\ \E v \in Values :
         /\ floats(v).ok
         /\ selector_positions = Thousandths(floats(v).list)
    /\ last_command_failed = NoFailure
    /\ last = NoCommand
    /\ prev = NoPrev
    /\ pc = "idle"
    /\ prompt = NoPrompt
    /\ rendered = NotRendered

NextTables ==
    \/ cmd_set_selector_positions
    \/ cmd_set_idler_positions
    \/ cmd_home_mmu_only
    \/ cmd_select_tool
    \/ cmd_unselect_tool
    \/ CommandDone

SpecTables == InitTables /\ [][NextTables]_vars

\* C29: both position tables have number_of_tools + 1 entries, from the
\* start and after every command.
C29_TablesHaveOneEntryPerTool ==
    /\ Len(idler_positions) = number_of_tools + 1
    /\ Len(selector_positions) = number_of_tools + 1

----------------------------------------------------------------------------
(* Prompt.to_gcode on the prompts of up to MaxWidgets widgets, the groups   *)
(* of up to MaxButtons buttons.                                             *)

\* The lists of 0..n members of S.
ListsUpTo(S, n) == UNION {[1..k -> S] : k \in 0..n}

Headlines == {<<>>, <<"Tool change failed">>}

Labels == {<<"Unlock">>, <<"action:prompt_button">>}

\* gcode and color as a button is given them: neither, or both.
ButtonOptions ==
    {<<Absent, Absent>>, <<Given(<<"UNLOCK_MMU">>), Given("Primary")>>}

Buttons ==
    {Button_init(kind, label, o[1], o[2]) :
        kind \in {"Button", "FooterButton"}, label \in Labels, o \in ButtonOptions}

ButtonGroups ==
    {ButtonGroup_init(b) :
        b \in {Absent} \cup {Given(l) : l \in ListsUpTo(Buttons, MaxButtons)}}

Widgets == {Text_init(t) : t \in Labels} \cup Buttons \cup ButtonGroups

WidgetArguments ==
    {Absent} \cup {Given(l) : l \in ListsUpTo(Widgets, MaxWidgets)}

\* Prompt(headline, widgets) has been constructed; nothing else has happened.
InitPrompt ==
    /\ is_paused = FALSE
    /\ is_homed = FALSE
    /\ current_tool = None
    /\ current_filament = None
    /\ switch_sensor_enabled = TRUE
    /\ motion_sensor_enabled = FALSE
    /\ enable_no_selector_mode = FALSE
    /\ enable_filament_cutter = FALSE
    /\ idler_positions = DefaultIdlerPositions
    /\ selector_positions = DefaultSelectorPositions
    /\ last_command_failed = NoFailure
    /\ last = NoCommand
    /\ prev = NoPrev
    /\ pc = "idle"
    /\ \E headline \in Headlines, widgets \in WidgetArguments :
         prompt = [headline |-> headline, widgets |-> widgets,
                   object |-> Prompt_init(headline, widgets)]
    /\ rendered = NotRendered

to_gcode ==
    /\ ~rendered.done
    /\ rendered' = [done |-> TRUE, text |-> Prompt_to_gcode(prompt.object)]
    /\ UNCHANGED <<is_paused, is_homed, current_tool, current_filament,
                   switch_sensor_enabled, motion_sensor_enabled,
                   enable_no_selector_mode, enable_filament_cutter,
                   idler_positions, selector_positions, last_command_failed,
                   last, prev, pc, prompt>>

NextPrompt == to_gcode

SpecPrompt == InitPrompt /\ [][NextPrompt]_vars

\* The line of a button with the given action.
ButtonLine(action, w) ==
    <<RespondMsg, action, " ">> \o w.label \o <<"|">> \o w.gcode \o <<"|">>
        \o (IF w.color.none THEN <<>> ELSE Color_str(w.color.value))
        \o <<Quote>>

\* The lines of one widget.
WidgetLines(w) ==
    CASE w.kind = "Text" ->
           << <<RespondMsg, "action:prompt_text", " ">> \o w.label \o <<Quote>> >>
      [] w.kind = "Button" -> <<ButtonLine("action:prompt_button", w)>>
      [] w.kind = "FooterButton" ->
           <<ButtonLine("action:prompt_footer_button", w)>>
      [] w.kind = "ButtonGroup" ->
           << <<RespondMsg, "action:prompt_button", "_group_start", Quote>> >>
             \o [i \in DOMAIN w.buttons |->
                   ButtonLine(IF w.buttons[i].kind = "FooterButton"
                              THEN "action:prompt_footer_button"
                              ELSE "action:prompt_button", w.buttons[i])]
             \o << <<RespondMsg, "action:prompt_button", "_group_end", Quote>> >>

\* The lines of the widgets of a list, in the order of the list.
RECURSIVE AllWidgetLines(_)
AllWidgetLines(ws) ==
    IF ws = <<>> THEN <<>> ELSE WidgetLines(ws[1]) \o AllWidgetLines(Tail(ws))

\* The lines of a prompt: the begin line with the headline, the lines of the
\* widgets, the show line; no widgets for widgets = None.
PromptLines(headline, widgets) ==
    << <<RespondMsg, "action:prompt_begin", " ">> \o headline \o <<Quote>> >>
      \o AllWidgetLines(IF widgets.none THEN <<>> ELSE widgets.value)
      \o << <<RespondMsg, "action:prompt_show", Quote>> >>

\* C30: what Prompt.to_gcode returns is, one per line and in this order, the
\* prompt_begin line with the headline, the lines of each widget in list
\* order (a group as its start line, its buttons in list order and its end
\* line; a footer button as the button's line with the footer action) and the
\* prompt_show line; widgets = None gives what the empty list gives.
C30_PromptRendering ==
    rendered.done =>
        rendered.text = join(<<"\n">>, PromptLines(prompt.headline, prompt.widgets))

----------------------------------------------------------------------------
(* Claims about the transport stages.                                       *)

\* C31: a LOAD_FILAMENT_TO_HOTEND on an unpaused unit with a hot hotend asks
\* for between one and 1 + load_retry pulley increments of
\* bowden_load_length3, each followed at once by the extruder feed of the same
\* length; every increment after the first comes straight after a reading
\* "absent" of the extruder sensor (and the zeroing of the pulley); the pulley
\* is never homed; the result is success exactly when the last reading of the
\* extruder sensor was "present".
C31_HotendFeed ==
    ( /\ pc = "done"
      /\ last.cmd = "load_filament_to_hotend"
      /\ ~last.exc
      /\ ~last.pre.is_paused
      /\ last.temp >= min_temp_extruder )
    => LET tr == last.trace
           P == Calls(tr, "pulley", "move")
           R == Readings(tr, "extruder_sensor")
       IN  /\ Cardinality(P) >= 1
           /\ Cardinality(P) <= 1 + load_retry
           /\ \A i \in P :
                /\ tr[i] = <<"pulley", "move", bowden_load_length3>>
                /\ tr[i - 1] = <<"pulley", "set_position", 0>>
                /\ tr[i + 1] = <<"gcode", "extruder_feed", bowden_load_length3>>
                /\ tr[i + 2] = <<"pulley", "set_position", 0>>
                /\ (\E j \in P : j < i) =>
                     tr[i - 2] = <<"extruder_sensor", "read", 0>>
           /\ Calls(tr, "pulley", "homing_move") = {}
           /\ \A k \in Calls(tr, "gcode", "extruder_feed") :
                k - 1 \in P \/ tr[k][3] = extra_load_length
           /\ R # <<>>
           /\ last.ret = R[Len(R)]

\* A LOAD_FILAMENT_TO_HOTEND that fed twice and then found the filament.
C31_Witness ==
    /\ pc = "done"
    /\ last.cmd = "load_filament_to_hotend"
    /\ ~last.pre.is_paused
    /\ last.temp >= min_temp_extruder
    /\ last.ret
    /\ Cardinality(Calls(last.trace, "pulley", "move")) = 2
    /\ Readings(last.trace, "extruder_sensor")[1] = FALSE

\* The commands of the five transport stages.
TransportStages ==
    {"load_filament_to_finda", "load_filament_from_finda_to_extruder",
     "load_filament_to_hotend", "unload_filament_from_extruder_to_finda",
     "unload_filament_from_finda"}

\* The positions of the pulley's moves and homing moves.
PulleyMoves(tr) ==
    {i \in DOMAIN tr : tr[i][1] = "pulley" /\ tr[i][2] \in {"move", "homing_move"}}

\* C32: in each of the five transport stages every move of the pulley comes
\* straight after a zeroing of the pulley's position, and a zeroing follows
\* the last move of the stage.
C32_PulleyZeroedBeforeAndAfter ==
    ( /\ pc = "done"
      /\ last.cmd \in TransportStages
      /\ ~last.exc )
    => LET tr == last.trace
           P == PulleyMoves(tr)
       IN  /\ \A i \in P : i > 1 /\ tr[i - 1] = <<"pulley", "set_position", 0>>
           /\ \A i \in P : \E j \in Calls(tr, "pulley", "set_position") : j > i

\* C33: is_homed becomes true only in a command in which home_mmu_only ran
\* to its end and returned success; in particular a HOME_MMU that returns
\* failure leaves is_homed as it was.
C33_HomedOnlyAfterHoming ==
    ( /\ pc = "done"
      /\ ~last.exc )
    => /\ (~last.pre.is_homed /\ is_homed) =>
             ReturnedWith(last.trace, "home_mmu_only", 1) # {}
       /\ (last.cmd = "home_mmu" /\ ~last.ret) => is_homed = last.pre.is_homed

\* C34: in no-selector mode a Tx that returns success on a homed, unpaused
\* unit leaves current_filament = tool_id.
C34_NoSelectorTracksFilament ==
    ( /\ pc = "done"
      /\ last.cmd = "tx"
      /\ ~last.exc
      /\ last.ret
      /\ last.pre.is_homed
      /\ ~last.pre.is_paused
      /\ enable_no_selector_mode )
    => current_filament = last.arg

\* The last position of ps before i.
LastBefore(ps, i) == CHOOSE p \in ps : p < i /\ \A q \in ps : q < i => q <= p

\* C35: in selector mode an unload_tool that returns success, called by
\* UNLOAD_TOOL or by a Tx, has read the FINDA "not triggered" at its last
\* reading, if it read the FINDA at all.
C35_UnloadToolEndsWithEmptyFinda ==
    ( /\ pc = "done"
      /\ last.cmd \in {"unload_tool", "tx"}
      /\ ~last.exc
      /\ ~enable_no_selector_mode )
    => LET tr == last.trace
           F == Calls(tr, "finda", "read")
       IN  \A i \in ReturnedWith(tr, "unload_tool", 1) :
              LET c == LastBefore(Calls(tr, "call", "unload_tool"), i)
                  during == {f \in F : c < f /\ f < i}
              IN  during # {} => tr[LastBefore(during, i)][3] = 0

\* The positions of the idler's moves.
IdlerMoves(tr) == Calls(tr, "idler", "move")

\* C36: the selected tool and the idler agree after every command: a command
\* that moved the idler and leaves a tool t selected made its last idler move
\* to idler_positions[t], and a command that did not move the idler leaves
\* the selection as it found it or none.
C36_SelectedToolMatchesIdler ==
    ( /\ pc = "done"
      /\ ~last.exc
      /\ current_tool # None )
    => LET tr == last.trace
           I == IdlerMoves(tr)
       IN  IF I = {}
           THEN current_tool = last.pre.current_tool
           ELSE tr[LastBefore(I, Len(tr) + 1)][3] = idler_positions[current_tool + 1]

\* The unload-type commands without the scoped guard of Tx and HOME_MMU.
UnloadCommands ==
    {"unload_tool", "m702", "unload_filament_from_hotend", "eject_from_extruder",
     "kx"}

\* C37: when an unload-type command returns, on success or failure, the
\* switch sensor's enabled flag is what it was when the command was entered.
C37_UnloadRestoresSwitchSensor ==
    ( /\ pc = "done"
      /\ last.cmd \in UnloadCommands
      /\ ~last.exc )
    => switch_sensor_enabled = last.pre.switch_sensor_enabled

\* The scripts that move the filament in the extruder.
ExtruderMotion == {"extruder_feed", "extruder_retract", "ramming", "cut_in_extruder"}

\* C38: a command that runs with the hotend below min_temp_extruder, and that
\* does not heat it (the temperature stays what it was), issues no script that
\* moves the filament in the extruder.
C38_NoExtruderMotionWhenCold ==
    ( /\ pc = "done"
      /\ last.temp < min_temp_extruder
      /\ Calls(last.trace, "gcode", "M109") = {} )
    => \A i \in DOMAIN last.trace :
          ~(last.trace[i][1] = "gcode" /\ last.trace[i][2] \in ExtruderMotion)

\* C39: in every state a selected tool or a tracked filament implies
\* is_homed, and no command that began with is_homed true ends with it false.
C39_TrackingImpliesHomed ==
    /\ (current_tool # None \/ current_filament # None) => is_homed
    /\ (pc = "done" /\ last.pre.is_homed) => is_homed

\* A HOME_MMU that failed on a homed unit tracking a filament: the filament is
\* still tracked and the unit still homed.
C39_Witness ==
    /\ pc = "done"
    /\ last.cmd = "home_mmu"
    /\ ~last.ret
    /\ last.pre.is_homed
    /\ last.pre.current_filament # None
    /\ current_filament # None
    /\ is_homed

\* The positions of the trace where the pulley makes a homing move of len.
HomingMoves(tr, len) ==
    {i \in DOMAIN tr : tr[i] = <<"pulley", "homing_move", len>>}

\* An iteration of a FINDA loop is three requests: the pulley zeroed, the
\* homing move, the FINDA read.  Position i starts a run of n + 1 iterations.
RunOfIterations(tr, len, i, n) ==
    \A k \in 0..n : (i + 3 * k) \in HomingMoves(tr, len)

\* The positions of ps within the invocation of name that was called at
\* position i: after i and before the next return of name.
DuringInvocation(tr, name, i, ps) ==
    LET rs == {r \in Calls(tr, "return", name) : r > i}
    IN  {p \in ps : p > i /\ \A r \in rs : p < r}

====
